---- MODULE Spec2Model ----
(***************************************************************************)
(* A model of the animator package: the scene graph of Entity objects      *)
(* (animator/entities/entity.py, contour2d.py) and the Scene that replays  *)
(* a frame-indexed script of instructions on them (animator/scene.py).     *)
(*                                                                         *)
(* Python objects live in a heap: an object is its index in `heap`, a      *)
(* reference to an object is that index, and None is 0.  Dictionaries that *)
(* can be shared between objects live in `dicts` in the same way.          *)
(***************************************************************************)
EXTENDS Integers, Sequences, FiniteSets, TLC

VARIABLES
    heap,     \* the Entity objects: heap[n] is the attributes dict of object n
    dicts,    \* the dict objects held in Scene.entities (dicts[1] is the
              \* default value of the `entities` parameter of Scene.__init__)
    scenes,   \* the Scene objects
    ret       \* the last call made: its arguments and what it returned or raised

vars == <<heap, dicts, scenes, ret>>

(***************************************************************************)
(* Bounds of the model.                                                    *)
(***************************************************************************)
MaxNodes == 3       \* Entity objects built in the scene-graph specification
MaxEdges == 2       \* entries of all components lists together
MaxHeap == 4        \* Entity objects in the scene specification
MaxScenes == 2      \* Scene objects
MaxInstr == 2       \* instructions appended to the scripts, all scenes together
MaxFrame == 1       \* highest frame number an instruction is appended at
MaxCoord == 2       \* largest coordinate a replayed Entity may reach
MaxParts == 3       \* Entity objects built in the drawing specification
MaxMoved == 1       \* Entity objects built in the moving specification
MaxScript == 4      \* instructions in the script of the animation specification
MaxSeek == 4        \* frames asked for in the animation specification
MaxRolls == 4       \* passes of the loop of calc_flatness that are followed
MaxDraw == 4        \* largest value one draw of the generator yields
MaxContours == 3    \* contours built in the sampling specification
MaxFadeScript == 7   \* instructions in the script of the fading specification
MaxSpan == 4        \* frames of a builder call whose span is worked out once

None == 0

(***************************************************************************)
(* Doubles (numpy float64, python float).  A whole number of any size is   *)
(* the sequence of its digits in base 2^15, the lowest first, and <<>> is  *)
(* 0.  A double is [neg, m, e]: the number m * 2^e, negated when neg,      *)
(* where m has 53 bits; 0 is [FALSE, <<>>, 0].  Every operation gives the  *)
(* double nearest to the exact result, the even one of two that are as     *)
(* near.  Infinities, nan, subnormals and the sign of 0 are left out.      *)
(***************************************************************************)
\* the bits of the significand of a float (numpy float64)
Precision == 53

Abs(x) == IF x >= 0 THEN x ELSE -x

Max2(a, b) == IF a >= b THEN a ELSE b

RECURSIVE Pow2(_)
Pow2(k) ==
    IF k = 0 THEN 1
    ELSE Pow2(k \div 2) * Pow2(k \div 2) * (IF k % 2 = 1 THEN 2 ELSE 1)

\* the number of bits of m > 0
RECURSIVE BitLen(_)
BitLen(m) ==
    IF m < 16 THEN <<0, 1, 2, 2, 3, 3, 3, 3, 4, 4, 4, 4, 4, 4, 4, 4>>[m + 1]
    ELSE 4 + BitLen(m \div 16)

Base == Pow2(15)

Min2(a, b) == IF a <= b THEN a ELSE b

RECURSIVE Pow10(_)
Pow10(k) == IF k = 0 THEN 1 ELSE 10 * Pow10(k - 1)

\* the top place of a that holds a digit other than 0
TopPlace(a) ==
    IF \A i \in 1..Len(a) : a[i] = 0 THEN 0
    ELSE CHOOSE i \in 1..Len(a) : a[i] # 0 /\ \A j \in (i + 1)..Len(a) : a[j] = 0

\* the digits of a whole number without the zeros at its top
Trim(a) == IF a = <<>> THEN <<>> ELSE SubSeq(a, 1, TopPlace(a))

RECURSIVE BigOf(_)
BigOf(n) == IF n = 0 THEN <<>> ELSE <<n % Base>> \o BigOf(n \div Base)

\* the whole number, when it is less than 2^31
RECURSIVE BigInt(_)
BigInt(a) == IF a = <<>> THEN 0 ELSE a[1] + Base * BigInt(Tail(a))

Digit(a, i) == IF i <= Len(a) THEN a[i] ELSE 0

\* a carry comes into place i of a + b: a lower place gives one and every
\* place between passes it on
Carry(a, b, i) ==
    \E j \in 1..(i - 1) :
        /\ Digit(a, j) + Digit(b, j) >= Base
        /\ \A k \in (j + 1)..(i - 1) : Digit(a, k) + Digit(b, k) = Base - 1

BigAdd(a, b) ==
    IF a = <<>> THEN Trim(b)
    ELSE IF b = <<>> THEN Trim(a)
    ELSE Trim([i \in 1..(Max2(Len(a), Len(b)) + 1) |->
                (Digit(a, i) + Digit(b, i) + (IF Carry(a, b, i) THEN 1 ELSE 0)) % Base])

\* place i of a - b lends to a lower place
Borrow(a, b, i) ==
    \E j \in 1..(i - 1) :
        /\ Digit(a, j) < Digit(b, j)
        /\ \A k \in (j + 1)..(i - 1) : Digit(a, k) = Digit(b, k)

\* a - b for a >= b
BigSub(a, b) ==
    IF b = <<>> THEN a
    ELSE Trim([i \in 1..Len(a) |->
                (a[i] - Digit(b, i) - (IF Borrow(a, b, i) THEN 1 ELSE 0) + Base) % Base])

BigLess(a, b) ==
    IF Len(a) # Len(b) THEN Len(a) < Len(b)
    ELSE \E i \in 1..Len(a) : a[i] < b[i] /\ \A k \in (i + 1)..Len(a) : a[k] = b[k]

\* a * k for one digit k: the low halves of the products, and the high
\* halves one place up
BigTimes(a, k) ==
    IF a = <<>> \/ k = 0 THEN <<>>
    ELSE BigAdd([i \in 1..Len(a) |-> (a[i] * k) % Base],
                [i \in 1..(Len(a) + 1) |-> IF i = 1 THEN 0 ELSE (a[i - 1] * k) \div Base])

\* a * Base^n
BigUp(a, n) == IF a = <<>> THEN <<>> ELSE [i \in 1..n |-> 0] \o a

\* the loop over the digits of b holds its place i and the sum so far
RECURSIVE BigMulFrom(_, _, _)
BigMulFrom(a, b, st) ==
    IF st.i > Len(b) THEN st.out
    ELSE BigMulFrom(a, b,
            [i |-> st.i + 1,
             out |-> BigAdd(st.out, BigUp(BigTimes(a, b[st.i]), st.i - 1))])

BigMul(a, b) ==
    IF a = <<>> \/ b = <<>> THEN <<>> ELSE BigMulFrom(a, b, [i |-> 1, out |-> <<>>])

\* a * 2^n
ShiftUp(a, n) == BigUp(BigTimes(a, Pow2(n % 15)), n \div 15)

\* a / 2^n, cut off
ShiftDown(a, n) ==
    IF a = <<>> THEN <<>>
    ELSE LET b == SubSeq(a, (n \div 15) + 1, Len(a))
         IN  Trim([i \in 1..Len(b) |->
                     (b[i] \div Pow2(n % 15))
                       + (Digit(b, i + 1) % Pow2(n % 15)) * Pow2(15 - (n % 15))])

BigBits(a) == IF a = <<>> THEN 0 ELSE 15 * (Len(a) - 1) + BitLen(a[Len(a)])

\* the digit q of t / d, from an estimate that is not below it
RECURSIVE BigFit(_, _, _)
BigFit(t, d, q) == IF BigLess(t, BigTimes(d, q)) THEN BigFit(t, d, q - 1) ELSE q

\* the digit of a / d at one place, t being what is left above it
BigDigit(t, d) ==
    BigFit(t, d, Min2(Base - 1,
                      (Digit(t, Len(d) + 1) * Base + Digit(t, Len(d))) \div d[Len(d)]))

BigDivNext(d, st, t, q) ==
    [i |-> st.i - 1, r |-> BigSub(t, BigTimes(d, q)), q |-> <<q>> \o st.q]

BigDivStep(d, st, t) == BigDivNext(d, st, t, BigDigit(t, d))

\* Long division of the digits i, ..., 1 of a by d, whose top digit has 15
\* bits: st holds the place i, the remainder r < d of the digits above it
\* and their quotient q.  The result is the quotient cut off (q), and
\* whether no remainder is left (exact).
RECURSIVE BigDivFrom(_, _, _)
BigDivFrom(a, d, st) ==
    IF st.i = 0 THEN [q |-> Trim(st.q), exact |-> st.r = <<>>]
    ELSE BigDivFrom(a, d, BigDivStep(d, st, Trim(<<a[st.i]>> \o st.r)))

\* the digits of n above the place i, one fewer than d has, are less than d
BigDivTop(n, d, i) ==
    BigDivFrom(n, d, [i |-> i, r |-> SubSeq(n, i + 1, Len(n)), q |-> <<>>])

BigDivShift(n, d) == BigDivTop(n, d, Max2(0, Len(n) - Len(d) + 1))

BigDivBy(a, d, s) == BigDivShift(ShiftUp(a, s), ShiftUp(d, s))

\* a / d for d > 0
BigDiv(a, d) == BigDivBy(a, d, 15 - BitLen(d[Len(d)]))

RECURSIVE BigNewton(_, _)
BigNewtonTo(a, x, y) == IF BigLess(y, x) THEN BigNewton(a, y) ELSE x

BigNewton(a, x) == BigNewtonTo(a, x, ShiftDown(BigAdd(x, BigDiv(a, x).q), 1))

\* the square root of a, cut off
BigSqrt(a) == IF a = <<>> THEN <<>> ELSE BigNewton(a, ShiftUp(<<1>>, (BigBits(a) + 1) \div 2))

\* q, or the next whole number: left is what was cut off and half is 1/2
BigRoundUp(q, left, half, exact) ==
    IF BigLess(half, left) \/ (left = half /\ (~exact \/ Digit(q, 1) % 2 = 1))
    THEN BigAdd(q, <<1>>)
    ELSE q

BigRoundOf(m, q, cut, exact) ==
    BigRoundUp(q, BigSub(m, ShiftUp(q, cut)), ShiftUp(<<1>>, cut - 1), exact)

\* (m + rest) / 2^cut rounded to the nearest whole number, to the even one
\* of two; rest is less than 1 and is 0 when exact
BigRound(m, cut, exact) ==
    IF cut = 0 THEN m ELSE BigRoundOf(m, ShiftDown(m, cut), cut, exact)

F64Zero == [neg |-> FALSE, m |-> <<>>, e |-> 0]

\* r * 2^e where r was rounded to 53 bits and may have got one more
F64Cut(neg, r, e) ==
    IF BigBits(r) > Precision
    THEN [neg |-> neg, m |-> ShiftDown(r, 1), e |-> e + 1]
    ELSE [neg |-> neg, m |-> r, e |-> e]

F64Fit(neg, m, e, bits, exact) ==
    IF bits <= Precision
    THEN [neg |-> neg, m |-> ShiftUp(m, Precision - bits), e |-> e - (Precision - bits)]
    ELSE F64Cut(neg, BigRound(m, bits - Precision, exact), e + (bits - Precision))

\* the double nearest to (m + rest) * 2^e
F64Round(neg, m, e, exact) ==
    IF m = <<>> THEN F64Zero ELSE F64Fit(neg, m, e, BigBits(m), exact)

\* the double of the whole number n times 2^e
F64Of(n, e) == F64Round(n < 0, BigOf(Abs(n)), e, TRUE)

F64Neg(x) == IF x.m = <<>> THEN x ELSE [x EXCEPT !.neg = ~@]

F64Abs(x) == [x EXCEPT !.neg = FALSE]

\* |x| < |y|
F64Nearer(x, y) ==
    IF y.m = <<>> THEN FALSE
    ELSE IF x.m = <<>> THEN TRUE
    ELSE IF x.e # y.e THEN x.e < y.e
    ELSE BigLess(x.m, y.m)

\* x < y
F64Less(x, y) ==
    IF x.neg # y.neg THEN x.neg
    ELSE IF x.neg THEN F64Nearer(y, x)
    ELSE F64Nearer(x, y)

\* |a - b|
BigGap(a, b) == IF BigLess(a, b) THEN BigSub(b, a) ELSE BigSub(a, b)

\* x + y from the significands a of x and b of y at the exponent e
F64Sum(x, y, a, b, e) ==
    F64Round(IF x.neg = y.neg \/ ~BigLess(a, b) THEN x.neg ELSE y.neg,
             IF x.neg = y.neg THEN BigAdd(a, b) ELSE BigGap(a, b), e, TRUE)

F64AddAt(x, y, e) == F64Sum(x, y, ShiftUp(x.m, x.e - e), ShiftUp(y.m, y.e - e), e)

\* x + y
F64Add(x, y) ==
    IF x.m = <<>> THEN y
    ELSE IF y.m = <<>> THEN x
    ELSE IF x.e - y.e >= Precision + 3 THEN x
    ELSE IF y.e - x.e >= Precision + 3 THEN y
    ELSE F64AddAt(x, y, Min2(x.e, y.e))

\* x - y
F64Sub(x, y) == F64Add(x, F64Neg(y))

\* x * y
F64Mul(x, y) ==
    IF x.m = <<>> \/ y.m = <<>> THEN F64Zero
    ELSE F64Round(x.neg # y.neg, BigMul(x.m, y.m), x.e + y.e, TRUE)

F64QuotOf(neg, d, e) == F64Round(neg, d.q, e, d.exact)

F64QuotBy(neg, a, b, e, k) == F64QuotOf(neg, BigDiv(ShiftUp(a, k), b), e - k)

\* the double nearest to (a / b) * 2^e, for whole numbers a and b > 0
F64Quot(neg, a, b, e) ==
    IF a = <<>> THEN F64Zero
    ELSE F64QuotBy(neg, a, b, e, Max2(0, Precision + 3 + BigBits(b) - BigBits(a)))

\* x / y for y # 0
F64Div(x, y) ==
    CASE y.m # <<>> ->
        IF x.m = <<>> THEN F64Zero ELSE F64Quot(x.neg # y.neg, x.m, y.m, x.e - y.e)

F64Root(x, a, s, k) == F64Round(FALSE, s, (x.e - k) \div 2, BigMul(s, s) = a)

F64SqrtOf(x, a, k) == F64Root(x, a, BigSqrt(a), k)

F64SqrtAt(x, k) == F64SqrtOf(x, ShiftUp(x.m, k), k)

\* x ** .5 and np.sqrt(x) for x >= 0
F64Sqrt(x) ==
    IF x.m = <<>> THEN F64Zero
    ELSE F64SqrtAt(x, Precision + 3 + ((x.e + Precision + 3) % 2))

F64DecimalOf(x, n) == IF x.e >= 0 THEN ShiftUp(n, x.e) ELSE BigRound(n, -x.e, TRUE)

\* |x| * 10^digits, rounded as "%f" and numpy's printing do: to the nearest
\* whole number, to the even one of two (at most nine digits are asked for)
F64Decimal(x, digits) == F64DecimalOf(x, BigMul(x.m, BigOf(Pow10(digits))))

\* whether the double x is a whole number, of less than 2^30 in size
F64IsWhole(x) ==
    \/ x.m = <<>>
    \/ /\ x.e <= 0 /\ x.e > -Precision
       /\ Len(ShiftDown(x.m, -x.e)) <= 2
       /\ ShiftUp(ShiftDown(x.m, -x.e), -x.e) = x.m

\* the whole number the double x is
F64Whole(x) ==
    IF x.neg THEN -BigInt(ShiftDown(x.m, -x.e)) ELSE BigInt(ShiftDown(x.m, -x.e))

\* the double next to r on the side of the root of x, r being the double
\* nearest to the root: r itself when r is the root
F64BesideAt(r, a, b) ==
    IF a = b THEN r
    ELSE IF BigLess(a, b) THEN F64Round(FALSE, BigAdd(r.m, <<1>>), r.e, TRUE)
    ELSE F64Round(FALSE, BigSub(r.m, <<1>>), r.e, TRUE)

F64BesideFrom(x, r, e) ==
    F64BesideAt(r, ShiftUp(BigMul(r.m, r.m), 2 * r.e - e), ShiftUp(x.m, x.e - e))

F64BesideOf(x, r) == F64BesideFrom(x, r, Min2(x.e, 2 * r.e))

\* of the two doubles the root of x > 0 lies between, the one farther from
\* it (the root itself when it is a double)
F64SqrtFar(x) == F64BesideOf(x, F64Sqrt(x))

(***************************************************************************)
(* A numpy array is kept as [v, v64, real].  real tells its dtype: TRUE    *)
(* for float64, FALSE for int64 (np.array of a list of ints).  When each   *)
(* of its elements is a whole number (of less than 2^30 in size) v is the  *)
(* tuple of them and v64 is <<>>; otherwise v is <<>> and v64 the tuple of *)
(* the doubles.                                                            *)
(***************************************************************************)
\* the array of the doubles a
Stored(a) ==
    IF \A c \in 1..Len(a) : F64IsWhole(a[c])
    THEN [v |-> [c \in 1..Len(a) |-> F64Whole(a[c])], v64 |-> <<>>, real |-> TRUE]
    ELSE [v |-> <<>>, v64 |-> a, real |-> TRUE]

\* np.array(v) for a list v of ints
Ints(v) == [v |-> v, v64 |-> <<>>, real |-> FALSE]

\* the doubles of a tuple of whole numbers
Doubles(v) == [c \in 1..Len(v) |-> F64Of(v[c], 0)]

\* the doubles of an array kept as v and v64
Unstored(v, v64) == IF v # <<>> THEN Doubles(v) ELSE v64

(***************************************************************************)
(* numpy arrays: a shape (3) array is a tuple of three integers, a shape   *)
(* (3, 3) array is the tuple of its three rows.                            *)
(***************************************************************************)
VecAdd(u, v) == <<u[1] + v[1], u[2] + v[2], u[3] + v[3]>>

Dot(u, v) == u[1] * v[1] + u[2] * v[2] + u[3] * v[3]

\* m @ v
MatVec(m, v) == <<Dot(m[1], v), Dot(m[2], v), Dot(m[3], v)>>

Col(m, j) == <<m[1][j], m[2][j], m[3][j]>>

\* a @ b
MatMul(a, b) ==
    [i \in 1..3 |-> <<Dot(a[i], Col(b, 1)), Dot(a[i], Col(b, 2)), Dot(a[i], Col(b, 3))>>]

\* np.identity(3), and the default `ori` of Entity.__init__
Identity3 == <<<<1, 0, 0>>, <<0, 1, 0>>, <<0, 0, 1>>>>

\* a quarter turn about the z axis (ijk as columns)
RotZ == <<<<0, -1, 0>>, <<1, 0, 0>>, <<0, 0, 1>>>>

Zero3 == <<0, 0, 0>>

\* the (pos, ori) arguments the model builds Entities with
EntityArgs == {<<<<1, 0, 0>>, Identity3>>, <<<<0, 2, 0>>, RotZ>>}

(***************************************************************************)
(* Entity (entities/entity.py)                                             *)
(***************************************************************************)
\* opacity is kept in tenths: 10 is the default opacity=1.0
OpacityOne == 10

\* The attributes dict Entity.__init__ builds before it adds the components.
\* The array "pos" is the three fields pos, pos64 and real; np.array(pos) of
\* a list of ints holds ints.
EntityInit(pos, ori) ==
    [kind |-> "Entity", opacity |-> OpacityOne, visible |-> TRUE, parent |-> None,
     pos |-> pos, pos64 |-> <<>>, real |-> FALSE, ori |-> ori, components |-> <<>>]

\* the Entity e when its pos was a list of floats, as the default
\* [0., 0., 0.] is: np.array(pos) holds floats
OfFloats(e) == [e EXCEPT !.real = TRUE]

\* Entity(pos=pos, opacity=opacity, visible=visible), and the same for the
\* subclass Point, whose __init__ passes its coords as pos: kind is the
\* class of the object, which decides the draw_self that is called.
EntityWith(kind, pos, opacity, visible) ==
    [EntityInit(pos, Identity3) EXCEPT !.kind = kind, !.opacity = opacity,
                                       !.visible = visible]

\* Point(coords)
PointInit(coords) == EntityWith("Point", coords, OpacityOne, TRUE)

\* Point(coords) for coords given as floats, such as [12., 0., 0.]
PointInit64(coords) == OfFloats(PointInit(coords))

\* Arguments of add_components: an Entity, a value that is neither an Entity
\* nor iterable (such as 5), or a list of arguments.
ArgEnt(n) == [t |-> "ent", id |-> n]

ArgVal == [t |-> "val"]

ArgList(items) == [t |-> "list", items |-> items]

\* The else branch of add_components for one Entity argument: append it to
\* the receiver's components and make the receiver its parent.
AttachOne(h, self, n) ==
    LET h1 == [h EXCEPT ![self].components = Append(@, n)]
    IN  [h1 EXCEPT ![n].parent = self]

\* Entity.add_components(self, *args): the arguments are taken in order, a
\* list is broken down recursively, and the first argument that is not an
\* Entity raises ValueError, after the arguments before it were attached.
RECURSIVE AddComponentsRun(_, _, _)
AddComponentsRun(h, self, args) ==
    IF args = <<>> THEN [heap |-> h, raised |-> "None"]
    ELSE LET arg == Head(args)
             r == IF arg.t = "list" THEN AddComponentsRun(h, self, arg.items)
                  ELSE IF arg.t # "ent" THEN [heap |-> h, raised |-> "ValueError"]
                  ELSE [heap |-> AttachOne(h, self, arg.id), raised |-> "None"]
         IN  IF r.raised # "None" THEN r
             ELSE AddComponentsRun(r.heap, self, Tail(args))

\* Entity.pos() and Entity.ori(); a position is drawn and handed up to a
\* parent only when it is whole
Pos(h, n) == h[n].pos

\* Entity.pos() as doubles
Pos64(h, n) == Unstored(h[n].pos, h[n].pos64)

Ori(h, n) == h[n].ori

\* Entity.gpos(self, local_pos): walks up the parents; on a parent cycle the
\* recursion never reaches a global entity and Python raises RecursionError,
\* which the model reports once more calls were made than there are objects.
RECURSIVE GposRec(_, _, _, _)
GposRec(h, n, local_pos, depth) ==
    IF h[n].parent = None THEN [raised |-> "None", val |-> local_pos]
    ELSE IF depth > Len(h) THEN [raised |-> "RecursionError"]
    ELSE GposRec(h, h[n].parent,
                 VecAdd(Pos(h, h[n].parent), MatVec(Ori(h, h[n].parent), local_pos)),
                 depth + 1)

\* A bug gpos could have: the position of the global entity at the top of
\* the chain is left out, as if the global entity were the origin.
RECURSIVE GposSkipTop(_, _, _, _)
GposSkipTop(h, n, local_pos, depth) ==
    IF h[n].parent = None THEN [raised |-> "None", val |-> local_pos]
    ELSE IF depth > Len(h) THEN [raised |-> "RecursionError"]
    ELSE IF h[h[n].parent].parent = None
         THEN [raised |-> "None", val |-> MatVec(Ori(h, h[n].parent), local_pos)]
    ELSE GposSkipTop(h, h[n].parent,
                     VecAdd(Pos(h, h[n].parent), MatVec(Ori(h, h[n].parent), local_pos)),
                     depth + 1)

GposNoRoot(h, n) == GposSkipTop(h, n, Pos(h, n), 0)

\* gpos() called with local_pos=None
Gpos(h, n) == GposRec(h, n, Pos(h, n), 0)

\* Entity.gori(self)
RECURSIVE GoriRec(_, _, _)
GoriRec(h, n, depth) ==
    IF h[n].parent = None THEN [raised |-> "None", val |-> Identity3]
    ELSE IF depth > Len(h) THEN [raised |-> "RecursionError"]
    ELSE LET g == GoriRec(h, h[n].parent, depth + 1)
         IN  IF g.raised # "None" THEN g
             ELSE [raised |-> "None", val |-> MatMul(Ori(h, n), g.val)]

Gori(h, n) == GoriRec(h, n, 0)

(***************************************************************************)
(* The scene-graph specification: Entity objects are built and attached to *)
(* each other, and their global position and orientation are asked for.    *)
(***************************************************************************)
Nodes == 1..Len(heap)

\* The argument tuples the model passes to add_components: of one Entity n,
\* alone or with a value that is no Entity before or after it, and of two
\* Entities n, m in nested lists, with or without such a value at the end.
ArgTuples1(n) ==
    { <<ArgEnt(n)>>, <<ArgEnt(n), ArgVal>>, <<ArgVal, ArgEnt(n)>> }

ArgTuples2(n, m) ==
    { <<ArgList(<<ArgEnt(n), ArgList(<<ArgEnt(m)>>)>>)>>,
      <<ArgList(<<ArgEnt(n), ArgList(<<ArgEnt(m), ArgVal>>)>>)>> }

ArgTuples ==
    UNION {ArgTuples1(n) \cup UNION {ArgTuples2(n, m) : m \in Nodes} : n \in Nodes}

\* The package is loaded: no Entity and no Scene is built yet; the one dict
\* there is is the default value of the `entities` parameter, {}.
Init ==
    /\ heap = <<>>
    /\ dicts = <<<<>>>>
    /\ scenes = <<>>
    /\ ret = [op |-> "none"]

\* Entity(pos=pos, ori=ori): components defaults to [], so add_components
\* is called with one empty list and attaches nothing.
NewEntity(pos, ori) ==
    /\ Len(heap) < MaxNodes
    /\ LET n == Len(heap) + 1
           r == AddComponentsRun(Append(heap, EntityInit(pos, ori)), n,
                                 <<ArgList(<<>>)>>)
       IN  /\ heap' = r.heap
           /\ ret' = [op |-> "Entity", self |-> n, raised |-> r.raised]
    /\ UNCHANGED <<dicts, scenes>>

\* LineContour2D(start, end) and ArcContour2D(center, radius, ...): both call
\* super().__init__([self], **kwargs), which reaches Entity.__init__ with
\* components=[self].
NewContour(kind) ==
    /\ Len(heap) < MaxNodes
    /\ LET n == Len(heap) + 1
           r == AddComponentsRun(Append(heap, OfFloats(EntityWith("Contour", Zero3,
                                                                  OpacityOne, TRUE))),
                                 n, <<ArgList(<<ArgEnt(n)>>)>>)
       IN  /\ heap' = r.heap
           /\ ret' = [op |-> kind, self |-> n, raised |-> r.raised]
    /\ UNCHANGED <<dicts, scenes>>

RECURSIVE SumLen(_, _)
SumLen(h, k) == IF k = 0 THEN 0 ELSE Len(h[k].components) + SumLen(h, k - 1)

\* self.add_components(*args)
AddComponents(self, args) ==
    /\ SumLen(heap, Len(heap)) < MaxEdges
    /\ LET r == AddComponentsRun(heap, self, args)
       IN  /\ SumLen(r.heap, Len(r.heap)) <= MaxEdges
           /\ heap' = r.heap
           /\ ret' = [op |-> "add_components", raised |-> r.raised]
    /\ UNCHANGED <<dicts, scenes>>

\* n.gpos()
GposCall(n) ==
    /\ ret' = [op |-> "gpos", self |-> n, result |-> Gpos(heap, n)]
    /\ UNCHANGED <<heap, dicts, scenes>>

NextGraph ==
    \/ \E a \in EntityArgs : NewEntity(a[1], a[2])
    \/ \E kind \in {"LineContour2D", "ArcContour2D"} : NewContour(kind)
    \/ \E self \in Nodes, args \in ArgTuples : AddComponents(self, args)
    \/ \E n \in Nodes : GposCall(n)

SpecGraph == Init /\ [][NextGraph]_vars

(***************************************************************************)
(* Python values used by the Scene.                                        *)
(***************************************************************************)
\* An optional argument: a value, or None.
Some(v) == [some |-> TRUE, v |-> v]

Nothing == [some |-> FALSE]

\* a list of floats as an optional argument, a being the array of them; a
\* list of ints v is Some(v)
SomeList(a) == [some |-> TRUE, v |-> a.v, v64 |-> a.v64]

\* np.array(o) holds floats
IsReal(o) == "v64" \in DOMAIN o

\* Dictionary keys: a str such as "disk", or an int such as 0.  A str key
\* and an int key are never equal.
StrKey(a) == [int |-> FALSE, name |-> a, i |-> 0]

IntKey(i) == [int |-> TRUE, name |-> "", i |-> i]

\* A dict is the sequence of its items [k, v], in insertion order.
HasKey(d, k) == \E x \in 1..Len(d) : d[x].k = k

\* d[k], for a key d has
Get(d, k) == d[CHOOSE x \in 1..Len(d) : d[x].k = k].v

\* d[k] = v: an existing key keeps its place
Put(d, k, v) ==
    IF HasKey(d, k) THEN [x \in 1..Len(d) |-> IF d[x].k = k THEN [k |-> k, v |-> v] ELSE d[x]]
    ELSE Append(d, [k |-> k, v |-> v])

\* d.update(e)
RECURSIVE Update(_, _)
Update(d, e) == IF e = <<>> THEN d ELSE Update(Put(d, Head(e).k, Head(e).v), Tail(e))

\* The objects an Entity refers to: its parent and its components.
Refs(h, n) ==
    ({h[n].parent} \ {None}) \cup {h[n].components[i] : i \in 1..Len(h[n].components)}

RECURSIVE Reach(_, _)
Reach(h, S) ==
    LET T == S \cup UNION {Refs(h, n) : n \in S}
    IN  IF T = S THEN S ELSE Reach(h, T)

\* A bug the snapshot could have: a copy of the dict that shares its Entities.
ShallowCopy(h, d) == [heap |-> h, dict |-> d]

\* copy.deepcopy(d) of a dict of Entities: every Entity reachable from the
\* values of d is copied to a new object, and the references between the
\* copies follow those between the originals.
DeepCopy(h, d) ==
    LET R == Reach(h, {d[x].v : x \in 1..Len(d)})
        new(n) == IF n = None THEN None ELSE Len(h) + Cardinality({y \in R : y <= n})
        old(k) == CHOOSE n \in R : Cardinality({y \in R : y <= n}) = k
        copy(n) == [h[n] EXCEPT !.parent = new(@),
                                !.components = [i \in 1..Len(@) |-> new(@[i])]]
    IN  [heap |-> h \o [k \in 1..Cardinality(R) |-> copy(old(k))],
         dict |-> [x \in 1..Len(d) |-> [k |-> d[x].k, v |-> new(d[x].v)]]]

\* the v64 of an optional array (a list of ints has none)
Given64(o) == IF IsReal(o) THEN o.v64 ELSE <<>>

\* the attributes e of an Entity with the values of the array a in "pos"
PosPut(e, a) == [e EXCEPT !.pos = a.v, !.pos64 = a.v64]

\* the sums of two arrays of doubles, each rounded to a double
Vec64Add(u, v) == <<F64Add(u[1], v[1]), F64Add(u[2], v[2]), F64Add(u[3], v[3])>>

\* self.attributes["pos"] += np.array(dpos) when numpy accepts it: the sums
\* are written into the array, which keeps its dtype; sums of whole numbers
\* are whole
PosAdd(e, dpos) ==
    IF e.pos # <<>> /\ dpos.v # <<>> THEN [e EXCEPT !.pos = VecAdd(@, dpos.v)]
    ELSE PosPut(e, Stored(Vec64Add(Unstored(e.pos, e.pos64),
                                   Unstored(dpos.v, Given64(dpos)))))

\* Entity.move(self, pos, dpos, ori, dori) when nothing is raised; a
\* rotation dori is given as the matrix that dori.rotate applies to each
\* column of ori.
Moved(h, n, pos, dpos, ori, dori) ==
    LET h1 == IF pos.some THEN [h EXCEPT ![n].pos = pos.v, ![n].pos64 = Given64(pos),
                                         ![n].real = IsReal(pos)]
              ELSE IF dpos.some THEN [h EXCEPT ![n] = PosAdd(@, dpos)]
              ELSE h
    IN  IF ori.some THEN [h1 EXCEPT ![n].ori = ori.v]
        ELSE IF dori.some THEN [h1 EXCEPT ![n].ori = MatMul(dori.v, @)]
        ELSE h1

\* An exception is kept as its class `raised` and its `args`, each of them a
\* str or an int, written as a dictionary key is.  The args of the error of
\* numpy.add are the ufunc, the casting rule, the two dtypes and the index of
\* the output.
CastingArgs ==
    <<StrKey("add"), StrKey("same_kind"), StrKey("float64"), StrKey("int64"), IntKey(0)>>

\* Entity.move(self, pos, dpos, ori, dori).  The += of an array of floats
\* to an array of ints is refused by numpy, which does not cast the sums to
\* int64: it raises _UFuncOutputCastingError (a TypeError) and the Entity is
\* as it was.
Move(h, n, pos, dpos, ori, dori) ==
    IF ~pos.some /\ dpos.some /\ IsReal(dpos) /\ ~h[n].real
    THEN [heap |-> h, raised |-> "_UFuncOutputCastingError", args |-> CastingArgs]
    ELSE [heap |-> Moved(h, n, pos, dpos, ori, dori), raised |-> "None", args |-> <<>>]

\* Entity.set_attribute(self, attribute, value): self.attributes[attribute]
\* = value, whatever the key and the value; the object that was the parent
\* or a component is not touched.
SetAttribute(h, n, attribute, value) == [h EXCEPT ![n] = (attribute :> value) @@ @]

\* Entity.put(self, attribute, new_val)
EntityPut(h, n, attribute, new_val) == [h EXCEPT ![n] = (attribute :> new_val) @@ @]

(***************************************************************************)
(* Instructions: the python strings of the script.                         *)
(***************************************************************************)
\* ""
NoOp == [op |-> "", alias |-> ""]

\* "self.entities[\"alias\"].move(dpos=dpos)" for the list of the
\* elements of the array a, kept as dpos, dpos64 and real: a float is
\* written with all its digits, and 2.0 is written for the whole float 2
MoveByList(alias, a) ==
    [op |-> "move", alias |-> alias, dpos |-> a.v, dpos64 |-> a.v64, real |-> a.real]

\* the same for a list of ints
MoveBy(alias, dpos) == MoveByList(alias, Ints(dpos))

\* "self.entities[\"alias\"].move(pos=pos)", pos being a list of ints
MoveTo(alias, pos) == [op |-> "move_to", alias |-> alias, pos |-> pos]

\* "self.entities[\"alias\"].move(dpos=(np.array(slide_pos) -
\* self.entities[\"alias\"].pos()) * (factor))"; the factor is the decimal
\* number of the text, kept as the pair of its numerator and denominator.
SlideStep(alias, slide_pos, factor) ==
    [op |-> "slide_step", alias |-> alias, pos |-> slide_pos, factor |-> factor]

\* "self.entities[\"alias\"].set_attribute(\"attribute\", value)", value
\* being the number the text holds, with its six decimals, in millionths.
SetAttributeTo(alias, attribute, value) ==
    [op |-> "set_attribute", alias |-> alias, attribute |-> attribute, value |-> value]

\* "self.entities[\"alias\"].set_attribute(\"opacity\", value)"
SetOpacity(alias, value) == SetAttributeTo(alias, "opacity", value)

\* the millionths in a tenth: opacities are kept in tenths
MicroPerTenth == 100000

\* the double a decimal text num / den is read as
Literal(factor) == F64Quot(FALSE, BigOf(factor[1]), BigOf(factor[2]), 0)

\* (np.array(slide_pos) - pos) * factor for the doubles pos and factor
SlideBy(slide_pos, pos, factor) ==
    <<F64Mul(F64Sub(F64Of(slide_pos[1], 0), pos[1]), factor),
      F64Mul(F64Sub(F64Of(slide_pos[2], 0), pos[2]), factor),
      F64Mul(F64Sub(F64Of(slide_pos[3], 0), pos[3]), factor)>>

Aliases == {"a", "b"}

Instructions == {NoOp} \cup {MoveBy(a, <<1, 0, 0>>) : a \in Aliases}

\* the dpos of a move instruction, as the argument of move
DposOf(instruction) ==
    IF instruction.real
    THEN [some |-> TRUE, v |-> instruction.dpos, v64 |-> instruction.dpos64]
    ELSE Some(instruction.dpos)

\* What exec does with an instruction on the Entity n it names.
\* Opacities are kept as whole tenths: an instruction that would leave them
\* gives "NotWhole", and the specifications do not follow such a run.
ExecOn(h, n, instruction) ==
    IF instruction.op = "move"
    THEN Move(h, n, Nothing, DposOf(instruction), Nothing, Nothing)
    ELSE IF instruction.op = "move_to"
    THEN Move(h, n, Some(instruction.pos), Nothing, Nothing, Nothing)
    ELSE IF instruction.op = "slide_step"
    THEN Move(h, n, Nothing,
              SomeList(Stored(SlideBy(instruction.pos, Pos64(h, n),
                                      Literal(instruction.factor)))),
              Nothing, Nothing)
    ELSE IF instruction.attribute = "opacity"
    THEN IF instruction.value % MicroPerTenth # 0
         THEN [heap |-> h, raised |-> "NotWhole", args |-> <<>>]
         ELSE [heap |-> SetAttribute(h, n, "opacity", instruction.value \div MicroPerTenth),
               raised |-> "None", args |-> <<>>]
    ELSE IF instruction.attribute = "visible"
    THEN [heap |-> SetAttribute(h, n, "visible", instruction.value # 0),
          raised |-> "None", args |-> <<>>]
    ELSE [heap |-> SetAttribute(h, n, instruction.attribute, instruction.value),
          raised |-> "None", args |-> <<>>]

\* exec(instruction) in set_frame_no: self.entities[alias] raises
\* KeyError(alias) for an alias that is no key of entities.
Exec(h, entities, instruction) ==
    IF instruction.op = "" THEN [heap |-> h, raised |-> "None", args |-> <<>>]
    ELSE IF ~HasKey(entities, StrKey(instruction.alias))
         THEN [heap |-> h, raised |-> "KeyError", args |-> <<StrKey(instruction.alias)>>]
    ELSE ExecOn(h, Get(entities, StrKey(instruction.alias)), instruction)

(***************************************************************************)
(* Opacity and drawing of Entities (entities/entity.py, primatives.py).    *)
(* An opacity is kept in tenths and a product of opacities as the pair of  *)
(* its numerator and denominator.  An image is kept as the list of the     *)
(* marks painted on the background, in the order they are painted: a mark  *)
(* is where it is painted and the weights it has been blended with, the    *)
(* innermost blend first.                                                  *)
(***************************************************************************)
\* A bug get_opacity could have: the parentless Entity counts as opaque.
RECURSIVE GetOpacitySkipTop(_, _, _)
GetOpacitySkipTop(h, n, depth) ==
    IF h[n].parent = None THEN [raised |-> "None", val |-> <<OpacityOne, OpacityOne>>]
    ELSE IF depth > Len(h) THEN [raised |-> "RecursionError"]
    ELSE LET p == GetOpacitySkipTop(h, h[n].parent, depth + 1)
         IN  IF p.raised # "None" THEN p
             ELSE [raised |-> "None",
                   val |-> <<h[n].opacity * p.val[1], OpacityOne * p.val[2]>>]

\* Entity.get_opacity(self): the opacity of a parentless Entity, else the
\* opacity times parent.get_opacity(); python stops a recursion that does
\* not end with RecursionError.
RECURSIVE GetOpacityRec(_, _, _)
GetOpacityRec(h, n, depth) ==
    IF h[n].parent = None THEN [raised |-> "None", val |-> <<h[n].opacity, OpacityOne>>]
    ELSE IF depth > Len(h) THEN [raised |-> "RecursionError"]
    ELSE LET p == GetOpacityRec(h, h[n].parent, depth + 1)
         IN  IF p.raised # "None" THEN p
             ELSE [raised |-> "None",
                   val |-> <<h[n].opacity * p.val[1], OpacityOne * p.val[2]>>]

GetOpacityNoTop(h, n) == GetOpacitySkipTop(h, n, 0)

GetOpacity(h, n) == GetOpacityRec(h, n, 0)

\* The image of the background alone.
Background == <<>>

\* What Point.draw_self paints: a disk at the global position of the Point.
Mark(at) == [at |-> at, weights |-> <<>>]

\* cv2.addWeighted(img, 1 - w, mask, w, 0) written into img, where mask is a
\* copy of img with more marks painted: the marks of img stay, the marks
\* added to mask are blended with weight w.
AddWeighted(img, mask, w) ==
    img \o [i \in 1..(Len(mask) - Len(img)) |->
                [mask[Len(img) + i] EXCEPT !.weights = Append(@, w)]]

\* A bug add_to_image could have: the mask is blended with the local opacity.
BlendLocal(h, n, img, m) ==
    IF m.raised # "None" THEN [raised |-> m.raised, img |-> img]
    ELSE [raised |-> "None", img |-> AddWeighted(img, m.img, <<h[n].opacity, OpacityOne>>)]

\* The elif branch of add_to_image after draw_self(mask) gave m: draw_self
\* paints on the deep copy mask, so when it raises img is as it was.
Blend(h, n, img, m) ==
    IF m.raised # "None" THEN [raised |-> m.raised, img |-> img]
    ELSE IF GetOpacity(h, n).raised # "None"
         THEN [raised |-> GetOpacity(h, n).raised, img |-> img]
    ELSE [raised |-> "None", img |-> AddWeighted(img, m.img, GetOpacity(h, n).val)]

\* A bug add_to_image could have: the visible flag is not looked at.
VisibleAlways(h, n) == TRUE

\* self.attributes["visible"]
Visible(h, n) == h[n].visible

RECURSIVE AddToImage(_, _, _, _)
RECURSIVE DrawComponents(_, _, _, _)
\* draw_self(self, img, ...): Entity.draw_self adds every component to the
\* image, in the order of the list; Point.draw_self paints the Point where
\* gpos() is.
DrawSelf(h, n, img, depth) ==
    IF h[n].kind = "Point"
    THEN IF Gpos(h, n).raised # "None" THEN [raised |-> Gpos(h, n).raised, img |-> img]
         ELSE [raised |-> "None", img |-> Append(img, Mark(Gpos(h, n).val))]
    ELSE DrawComponents(h, h[n].components, [raised |-> "None", img |-> img], depth)

DrawComponents(h, comps, r, depth) ==
    IF r.raised # "None" \/ comps = <<>> THEN r
    ELSE DrawComponents(h, Tail(comps), AddToImage(h, Head(comps), r.img, depth + 1), depth)

\* Entity.add_to_image(self, img, resolution, origin)
AddToImage(h, n, img, depth) ==
    IF depth > Len(h) THEN [raised |-> "RecursionError", img |-> img]
    ELSE IF ~Visible(h, n) THEN [raised |-> "None", img |-> img]
    ELSE IF h[n].opacity = OpacityOne THEN DrawSelf(h, n, img, depth)
    ELSE IF h[n].opacity > 0 THEN Blend(h, n, img, DrawSelf(h, n, img, depth))
    ELSE [raised |-> "None", img |-> img]

(***************************************************************************)
(* The drawing specification: Entities and Points are built with an        *)
(* opacity and a visible flag, each is attached to an older one when it is *)
(* built or left on its own, and the opacity and the image of each are     *)
(* asked for.                                                              *)
(***************************************************************************)
\* the (kind, opacity, visible) the Entities are built with
Parts ==
    { <<"Entity", 10, TRUE>>, <<"Entity", 5, TRUE>>, <<"Entity", 0, TRUE>>,
      <<"Entity", 10, FALSE>>, <<"Point", 10, TRUE>>, <<"Point", 4, TRUE>> }

\* the buffers add_to_image is called on: a blank one and a painted one
Buffers == { Background, <<Mark(<<0, 0, 0>>)>> }

\* Entity(opacity=.., visible=..) or Point([1, 0, 0], opacity=.., visible=..)
NewPart(kind, opacity, visible) ==
    /\ Len(heap) < MaxParts
    /\ heap' = Append(heap, EntityWith(kind, <<1, 0, 0>>, opacity, visible))
    /\ ret' = [op |-> kind, self |-> Len(heap) + 1]
    /\ UNCHANGED <<dicts, scenes>>

\* heap[self].add_components(child) for the Entity built last
Attach(self) ==
    /\ self < Len(heap)
    /\ heap[Len(heap)].parent = None
    /\ heap' = AddComponentsRun(heap, self, <<ArgEnt(Len(heap))>>).heap
    /\ ret' = [op |-> "add_components", raised |-> "None"]
    /\ UNCHANGED <<dicts, scenes>>

\* heap[n].get_opacity()
GetOpacityCall(n) ==
    /\ ret' = [op |-> "get_opacity", self |-> n, result |-> GetOpacity(heap, n)]
    /\ UNCHANGED <<heap, dicts, scenes>>

\* heap[n].add_to_image(img, resolution, origin)
AddToImageCall(n, img) ==
    /\ ret' = [op |-> "add_to_image", self |-> n, img |-> img,
               result |-> AddToImage(heap, n, img, 0)]
    /\ UNCHANGED <<heap, dicts, scenes>>

NextRender ==
    \/ \E part \in Parts : NewPart(part[1], part[2], part[3])
    \/ \E self \in Nodes : Attach(self)
    \/ \E n \in Nodes : GetOpacityCall(n)
    \/ \E n \in Nodes, img \in Buffers : AddToImageCall(n, img)

SpecRender == Init /\ [][NextRender]_vars

(***************************************************************************)
(* Scene (scene.py)                                                        *)
(***************************************************************************)
NoReport == [frame |-> -1]

\* The except clause of set_frame_no around the exception e that exec
\* raised: prints the frame number, the time i / fps (kept as the pair of i
\* and fps) and the instruction, and raises e again, the same object with
\* the args it had.
Except(e, i, fps, instruction) ==
    [raised |-> e.raised, args |-> e.args,
     report |-> [frame |-> i, time |-> <<i, fps>>, instruction |-> instruction]]

\* A bug the replay could have: the target frame itself is replayed too.
RangeEndInclusive(frame_no) == frame_no + 1

\* range(self.current_frame, frame_no) ends before frame_no
RangeEnd(frame_no) == frame_no

\* Scene.add_instruction(frame_no, instruction)
AddInstructionRun(sc, frame_no, instruction) ==
    LET script == IF frame_no \notin DOMAIN sc.script
                  THEN sc.script @@ (frame_no :> <<>>)
                  ELSE sc.script
    IN  [sc EXCEPT !.script = [script EXCEPT ![frame_no] = Append(@, instruction)]]

\* max(self.script.keys())
MaxKey(script) == CHOOSE f \in DOMAIN script : \A g \in DOMAIN script : g <= f

\* Scene.reset(): for i in range(len(self.entities)) it looks up the int i
\* in entities_init and stores a deep copy of what it finds in entities.
RECURSIVE ResetLoop(_, _, _, _, _)
ResetStore(c, ds, sc, i, n) ==
    ResetLoop(c.heap, [ds EXCEPT ![sc.entities] = Put(@, IntKey(i), c.dict[1].v)], sc, i + 1, n)

ResetLoop(h, ds, sc, i, n) ==
    IF i >= n THEN [heap |-> h, dicts |-> ds, raised |-> "None", args |-> <<>>]
    ELSE IF ~HasKey(sc.entities_init, IntKey(i))
         THEN [heap |-> h, dicts |-> ds, raised |-> "KeyError", args |-> <<IntKey(i)>>]
    ELSE ResetStore(DeepCopy(h, <<[k |-> IntKey(i), v |-> Get(sc.entities_init, IntKey(i))]>>),
                    ds, sc, i, n)

\* the last line of reset, reached when the loop raised nothing
ResetDone(r, sc) ==
    [heap |-> r.heap, dicts |-> r.dicts, raised |-> r.raised, args |-> r.args,
     scene |-> IF r.raised = "None" THEN [sc EXCEPT !.current_frame = 0] ELSE sc]

ResetRun(h, ds, sc) == ResetDone(ResetLoop(h, ds, sc, 0, Len(ds[sc.entities])), sc)

\* The try statement of set_frame_no around the result r of exec.
Try(r, i, fps, instruction) ==
    IF r.raised = "None"
    THEN [heap |-> r.heap, raised |-> "None", args |-> <<>>, report |-> NoReport]
    ELSE [heap |-> r.heap, raised |-> Except(r, i, fps, instruction).raised,
          args |-> Except(r, i, fps, instruction).args,
          report |-> Except(r, i, fps, instruction).report]

\* The for loops of set_frame_no, from instruction j of frame i on; log is
\* the list of the <<frame, index>> of the instructions executed.
RECURSIVE ReplayRun(_, _, _, _, _, _, _, _)
ReplayNext(t, entities, sc, i, j, hi, report, log) ==
    IF t.raised # "None"
    THEN [heap |-> t.heap, raised |-> t.raised, args |-> t.args, report |-> t.report,
          log |-> Append(log, <<i, j>>)]
    ELSE ReplayRun(t.heap, entities, sc, i, j + 1, hi,
                   IF t.report = NoReport THEN report ELSE t.report, Append(log, <<i, j>>))

ReplayRun(h, entities, sc, i, j, hi, report, log) ==
    IF i >= hi
    THEN [heap |-> h, raised |-> "None", args |-> <<>>, report |-> report, log |-> log]
    ELSE IF i \notin DOMAIN sc.script \/ j > Len(sc.script[i])
         THEN ReplayRun(h, entities, sc, i + 1, 1, hi, report, log)
    ELSE ReplayNext(Try(Exec(h, entities, sc.script[i][j]), i, sc.fps, sc.script[i][j]),
                    entities, sc, i, j, hi, report, log)

\* set_frame_no after its replay r1: current_frame is set when nothing raised
AfterReplay(r0, r1, frame_no, back) ==
    [heap |-> r1.heap, dicts |-> r0.dicts, raised |-> r1.raised, args |-> r1.args,
     scene |-> IF r1.raised = "None" THEN [r0.scene EXCEPT !.current_frame = frame_no]
               ELSE r0.scene,
     report |-> r1.report, log |-> r1.log, reset |-> back]

\* set_frame_no after its reset r0 (or without one)
AfterReset(r0, frame_no, log, back) ==
    IF r0.raised # "None"
    THEN [heap |-> r0.heap, dicts |-> r0.dicts, scene |-> r0.scene, raised |-> r0.raised,
          args |-> r0.args, report |-> NoReport, log |-> log, reset |-> back]
    ELSE AfterReplay(r0,
                     ReplayRun(r0.heap, r0.dicts[r0.scene.entities], r0.scene,
                               r0.scene.current_frame, 1, RangeEnd(frame_no), NoReport, log),
                     frame_no, back)

\* Scene.set_frame_no(frame_no)
SetFrameNoRun(h, ds, sc, frame_no, log) ==
    AfterReset(IF frame_no < sc.current_frame THEN ResetRun(h, ds, sc)
               ELSE [heap |-> h, dicts |-> ds, raised |-> "None", args |-> <<>>,
                     scene |-> sc],
               frame_no, log, frame_no < sc.current_frame)

\* The loop of capture_frame: every Entity of the dict is added to the image,
\* in the order of the dict.
RECURSIVE CaptureLoop(_, _, _)
CaptureLoop(h, items, r) ==
    IF r.raised # "None" \/ items = <<>> THEN r
    ELSE CaptureLoop(h, Tail(items), AddToImage(h, Head(items).v, r.img, 0))

\* A bug capture_frame could have: the Entities are drawn last to first.
CaptureReversed(h, ds, sc) ==
    CaptureLoop(h, [x \in 1..Len(ds[sc.entities]) |->
                       ds[sc.entities][Len(ds[sc.entities]) + 1 - x]],
                [raised |-> "None", img |-> Background])

\* Scene.capture_frame(): a new image with the background, on which every
\* Entity of entities is drawn; img is the image returned, when nothing was
\* raised.
CaptureFrame(h, ds, sc) ==
    CaptureLoop(h, ds[sc.entities], [raised |-> "None", img |-> Background])

RECURSIVE GetFramesLoop(_, _, _, _, _, _, _, _)

\* the args of the RecursionError of a drawing: its message, kept by its
\* first words
RecursionArgs == <<StrKey("maximum recursion depth exceeded")>>

\* frames.append(self.capture_frame()) after the seek r; c is what
\* capture_frame gave: when it raised, get_frames returns nothing
GetFramesAppend(r, c, i, end_frame, frames, report) ==
    IF c.raised # "None"
    THEN [heap |-> r.heap, dicts |-> r.dicts, scene |-> r.scene, raised |-> c.raised,
          args |-> RecursionArgs, report |-> report, log |-> r.log, result |-> Nothing]
    ELSE GetFramesLoop(r.heap, r.dicts, r.scene, i + 1, end_frame,
                       Append(frames, c.img), r.log, report)

\* the body of the loop after set_frame_no(i) gave r
GetFramesNext(r, i, end_frame, frames, report) ==
    IF r.raised # "None"
    THEN [heap |-> r.heap, dicts |-> r.dicts, scene |-> r.scene, raised |-> r.raised,
          args |-> r.args, report |-> IF r.report = NoReport THEN report ELSE r.report,
          log |-> r.log, result |-> Nothing]
    ELSE GetFramesAppend(r, CaptureFrame(r.heap, r.dicts, r.scene), i, end_frame, frames,
                         IF r.report = NoReport THEN report ELSE r.report)

\* Scene.get_frames(start_frame, end_frame), from frame i on; report is what
\* the seeks made so far have printed.
GetFramesLoop(h, ds, sc, i, end_frame, frames, log, report) ==
    IF i > end_frame
    THEN [heap |-> h, dicts |-> ds, scene |-> sc, raised |-> "None", args |-> <<>>,
          report |-> report, log |-> log, result |-> Some(frames)]
    ELSE GetFramesNext(SetFrameNoRun(h, ds, sc, i, log), i, end_frame, frames, report)

GetFramesRun(h, ds, sc, start_frame, end_frame) ==
    GetFramesLoop(h, ds, sc, start_frame,
                  IF end_frame.some THEN end_frame.v ELSE MaxKey(sc.script), <<>>, <<>>,
                  NoReport)

\* Scene.add_entities(new_entities)
AddEntitiesRun(h, ds, sc, new_entities) ==
    LET c == DeepCopy(h, new_entities)
    IN  [heap |-> c.heap,
         dicts |-> [ds EXCEPT ![sc.entities] = Update(@, new_entities)],
         scene |-> [sc EXCEPT !.entities_init = Update(@, c.dict)]]

\* Scene.__init__(width, height, resolution, fps, entities): `entities` is
\* the dict object the caller passed or, when the argument is left out, the
\* one dict object that is the parameter's default value.
SceneInit(h, ds, fps, entities) ==
    LET c == DeepCopy(h, ds[entities])
        sc == [entities |-> entities, entities_init |-> c.dict,
               script |-> <<>>, current_frame |-> 0, fps |-> fps]
    IN  [heap |-> c.heap, scene |-> AddInstructionRun(sc, 0, NoOp)]

(***************************************************************************)
(* funcs.span and the builders of animation.py.  Times (duration, t_start) *)
(* are whole numbers of quarter seconds; the attribute values the builders *)
(* are given are whole numbers of ten-millionths, and stand for the        *)
(* doubles nearest to them.                                                *)
(***************************************************************************)
\* the quarter seconds in a second
TimeUnit == 4

\* the "-1" of duration and of t_start
Sentinel == -TimeUnit

\* int(a / b): the fraction is cut off towards zero
Trunc(a, b) == IF a >= 0 THEN a \div b ELSE -((-a) \div b)

\* int(t * scene.fps)
IntTimes(t, fps) == Trunc(t * fps, TimeUnit)

RECURSIVE GCD(_, _)
GCD(a, b) == IF b = 0 THEN a ELSE GCD(b, a % b)

Reduce(a) == <<a[1] \div GCD(a[1], a[2]), a[2] \div GCD(a[1], a[2])>>

\* np.linspace(start, stop, num)[i - 1] for whole numbers start # stop and
\* num > 1: step = (stop - start) / (num - 1), y = arange(num) * step +
\* start, and y[-1] = stop.
Linspace(start, stop, num, i) ==
    IF i = num THEN F64Of(stop, 0)
    ELSE F64Add(F64Mul(F64Of(i - 1, 0), F64Div(F64Of(stop - start, 0), F64Of(num - 1, 0))),
                F64Of(start, 0))

\* x ** 2 of a numpy array, element by element
Square(x) == F64Mul(x, x)

\* The distribution shape before its end points are rounded, element i of
\* n_elems: np.linspace(0, 1, n_elems), its square, and
\* 1 - np.linspace(1, 0, n_elems) ** 2.
ShapeRaw(profile, n_elems, i) ==
    CASE profile = "linear" -> Linspace(0, 1, n_elems, i)
      [] profile = "quadratic" -> Square(Linspace(0, 1, n_elems, i))
      [] profile = "neg_quadratic" ->
            F64Sub(F64Of(1, 0), Square(Linspace(1, 0, n_elems, i)))

\* shape -= shape[0]; shape *= 1.0 / shape[-1], for the element x: last is
\* shape[-1] before the subtraction
Rounded(first, last, x) ==
    F64Mul(F64Sub(x, first), F64Div(F64Of(1, 0), F64Sub(last, first)))

\* The shape of span.  The sinusoid and the sigmoid are taken with two
\* elements only, where the rounding of the end points leaves 0. and 1.
Shape(profile, n_elems) ==
    IF n_elems <= 1 THEN <<F64Of(1, 0)>>
    ELSE IF profile \in {"linear", "quadratic", "neg_quadratic"}
    THEN [i \in 1..n_elems |->
             Rounded(ShapeRaw(profile, n_elems, 1),
                     ShapeRaw(profile, n_elems, n_elems),
                     ShapeRaw(profile, n_elems, i))]
    ELSE CASE n_elems = 2 -> <<F64Zero, F64Of(1, 0)>>

\* start + np.outer(shape, (end - start)): one row for each element of the
\* shape, one column for each component of start and end (a float has one).
SpanRows(shape, start, end) ==
    [i \in 1..Len(shape) |->
        [c \in 1..Len(start) |->
            F64Add(start[c], F64Mul(shape[i], F64Sub(end[c], start[c])))]]

\* span(start, end, n_elems, profile) for arrays of doubles start and end
Span(start, end, n_elems, profile) == SpanRows(Shape(profile, n_elems), start, end)

\* "%f" % x: x with six decimals, as a number of millionths
FormatF(x) ==
    IF x.neg THEN -BigInt(F64Decimal(x, 6)) ELSE BigInt(F64Decimal(x, 6))

\* max(1, int(duration * scene.fps))
NFrames(sc, duration) == Max2(1, IntTimes(duration, sc.fps))

\* -1 taken as the first frame of the script instead of its last
FrameStartFirst(sc, t_start) ==
    IF t_start = Sentinel THEN 0 ELSE IntTimes(t_start, sc.fps)

\* max(scene.script.keys()) if t_start == -1, else int(t_start * scene.fps)
FrameStart(sc, t_start) ==
    IF t_start = Sentinel THEN MaxKey(sc.script) ELSE IntTimes(t_start, sc.fps)

\* one add_instruction for each element of instructions, at the frames
\* frame_no, frame_no + 1, ...
RECURSIVE AddInstructions(_, _, _)
AddInstructions(sc, frame_no, instructions) ==
    IF instructions = <<>> THEN sc
    ELSE AddInstructions(AddInstructionRun(sc, frame_no, Head(instructions)),
                         frame_no + 1, Tail(instructions))

\* the double a value given in ten-millionths is
Value64(x) == F64Quot(x < 0, BigOf(Abs(x)), BigOf(Pow10(7)), 0)

\* True and 1, as the attribute values the builders are given
One == 10000000

(***************************************************************************)
(* The arguments the specifications call the builders with.  What a        *)
(* builder writes into its instructions depends on its arguments and on    *)
(* the number of frames only, and is worked out once for these.            *)
(***************************************************************************)
Profiles == {"linear", "quadratic"}

SlideDisps == {<<2, 0, 0>>}

SlidePositions == {<<-4, 0, 0>>}

\* (attribute, start, end) of sweep_attr: opacity from 0 to 1, size from 0
\* to 0.1234567
Sweeps == {<<"opacity", 0, One>>, <<"size", 0, 1234567>>}

\* (attribute, value) of set_attr: opacity 0.5, size 0.1234567
Settings == {<<"opacity", 5000000>>, <<"size", 1234567>>}

\* the (start, end) of the sweeps, of the settings and of the fades
SweepEnds ==
    {<<w[2], w[3]>> : w \in Sweeps} \cup {<<0, v[2]>> : v \in Settings}
        \cup {<<0, One>>, <<One, 0>>, <<0, 0>>}

\* the numbers of frames
FrameCounts == 1..MaxSpan

\* list(values[i] - values[i-1]), rows counted from 1
Delta(values, i) ==
    <<F64Sub(values[i][1], values[i - 1][1]), F64Sub(values[i][2], values[i - 1][2]),
      F64Sub(values[i][3], values[i - 1][3])>>

\* The dpos of the instructions of slide: list(values[0]) when span gave one
\* row, else list(values[i] - values[i-1]) for each row after the first.
DeltaList(values) ==
    IF Len(values) = 1 THEN <<Stored(values[1])>>
    ELSE [i \in 1..(Len(values) - 1) |-> Stored(Delta(values, i + 1))]

\* values = funcs.span(np.zeros(3), np.array(slide_disp), nframes, profile),
\* and what is written of it
SlideMovesOf(slide_disp, nframes, profile) ==
    DeltaList(Span(Doubles(Zero3), Doubles(slide_disp), nframes, profile))

\* the table of them, worked out once
SlideMemo ==
    [k \in SlideDisps \X FrameCounts \X Profiles |-> SlideMovesOf(k[1], k[2], k[3])] @@ <<>>

SlideMoves(slide_disp, nframes, profile) ==
    IF <<slide_disp, nframes, profile>> \in DOMAIN SlideMemo
    THEN SlideMemo[<<slide_disp, nframes, profile>>]
    ELSE SlideMovesOf(slide_disp, nframes, profile)

\* the add_instruction calls of slide: one at frame_start for one frame,
\* else one at each of frame_start + 1, ..., frame_start + nframes - 1
SlideAdd(sc, alias, nframes, moves, frame_start) ==
    AddInstructions(sc, IF nframes = 1 THEN frame_start ELSE frame_start + 1,
                    [i \in 1..Len(moves) |-> MoveByList(alias, moves[i])])

\* slide(scene, duration, entity_alias, slide_disp, profile, t_start)
SlideRun(sc, duration, alias, slide_disp, profile, t_start) ==
    SlideAdd(sc, alias, NFrames(sc, duration),
             SlideMoves(slide_disp, NFrames(sc, duration), profile),
             FrameStart(sc, t_start))

\* (values[i] - values[i-1]) / (values[-1] - values[i-1]), rows counted from 1
FactorF64(values, i) ==
    F64Div(F64Sub(values[i][1], values[i - 1][1]),
           F64Sub(values[Len(values)][1], values[i - 1][1]))

\* 0.0001: numpy writes an array whose least element is below it with exponents
MinFixed == F64Quot(FALSE, <<1>>, BigOf(Pow10(4)), 0)

\* "%s" of the numpy array [f], as the number the text stands for: at most
\* eight decimals are written (a factor below 0.0001 is written with an
\* exponent, and is left out)
FactorText(f) ==
    CASE ~F64Less(f, MinFixed) -> Reduce(<<BigInt(F64Decimal(f, 8)), Pow10(8)>>)

\* the factor as the instruction holds it
Factor(values, i) == FactorText(FactorF64(values, i))

\* the factors of the instructions of slide_to, one for each row after the first
FactorList(values) == [i \in 1..(Len(values) - 1) |-> Factor(values, i + 1)]

\* values = funcs.span(0, 1, nframes, profile), and what is written of it
SlideFactorsOf(nframes, profile) ==
    FactorList(Span(<<F64Zero>>, <<F64Of(1, 0)>>, nframes, profile))

FactorMemo == [k \in FrameCounts \X Profiles |-> SlideFactorsOf(k[1], k[2])] @@ <<>>

SlideFactors(nframes, profile) ==
    IF <<nframes, profile>> \in DOMAIN FactorMemo THEN FactorMemo[<<nframes, profile>>]
    ELSE SlideFactorsOf(nframes, profile)

SlideToAdd(sc, alias, slide_pos, nframes, factors, frame_start) ==
    IF nframes = 1
    THEN AddInstructionRun(sc, frame_start, MoveTo(alias, slide_pos))
    ELSE AddInstructions(sc, frame_start + 1,
                         [i \in 1..Len(factors) |-> SlideStep(alias, slide_pos, factors[i])])

\* slide_to(scene, duration, entity_alias, slide_pos, profile, t_start)
SlideToRun(sc, duration, alias, slide_pos, profile, t_start) ==
    SlideToAdd(sc, alias, slide_pos, NFrames(sc, duration),
               SlideFactors(NFrames(sc, duration), profile), FrameStart(sc, t_start))

\* pause(scene, duration): "" at the highest frame plus nframes
PauseRun(sc, duration) ==
    AddInstructionRun(sc, MaxKey(sc.script) + NFrames(sc, duration), NoOp)

\* sweep_cmd(scene, duration, cmd, t_start)
SweepCmdRun(sc, duration, cmd, t_start) ==
    AddInstructions(sc, FrameStart(sc, t_start),
                    [i \in 1..NFrames(sc, duration) |-> cmd])

\* set_cmd(scene, cmd, t_start)
SetCmdRun(sc, cmd, t_start) == SweepCmdRun(sc, Sentinel, cmd, t_start)

\* "%f" % values[i] for each row
TextList(values) == [i \in 1..Len(values) |-> FormatF(values[i][1])]

\* values = funcs.span(start, end, nframes, profile), and what is written of it
SweepTextsOf(start, end, nframes, profile) ==
    TextList(Span(<<Value64(start)>>, <<Value64(end)>>, nframes, profile))

SweepMemo ==
    [k \in SweepEnds \X FrameCounts \X Profiles |->
        SweepTextsOf(k[1][1], k[1][2], k[2], k[3])] @@ <<>>

SweepTexts(start, end, nframes, profile) ==
    IF <<<<start, end>>, nframes, profile>> \in DOMAIN SweepMemo
    THEN SweepMemo[<<<<start, end>>, nframes, profile>>]
    ELSE SweepTextsOf(start, end, nframes, profile)

SweepAttrAdd(sc, alias, attribute, texts, frame_start) ==
    AddInstructions(sc, frame_start,
                    [i \in 1..Len(texts) |-> SetAttributeTo(alias, attribute, texts[i])])

\* sweep_attr(scene, duration, entity_alias, attribute, start, end, profile, t_start)
SweepAttrRun(sc, duration, alias, attribute, start, end, profile, t_start) ==
    SweepAttrAdd(sc, alias, attribute,
                 SweepTexts(start, end, NFrames(sc, duration), profile),
                 FrameStart(sc, t_start))

\* set_attr(scene, entity_alias, attribute, value, t_start, **kwargs) with
\* the profile its kwargs hold: sweep_attr is called without t_start.
SetAttrRun(sc, alias, attribute, value, profile, t_start) ==
    SweepAttrRun(sc, Sentinel, alias, attribute, 0, value, profile, Sentinel)

\* fade_in(scene, duration, entity_alias, t_start, **kwargs) with the
\* profile its kwargs hold
FadeInRun(sc, duration, alias, profile, t_start) ==
    SweepAttrRun(SetAttrRun(sc, alias, "visible", One, profile, t_start),
                 duration, alias, "opacity", 0, One, profile, t_start)

\* fade_out(scene, duration, entity_alias, t_start, **kwargs)
FadeOutRun(sc, duration, alias, profile, t_start) ==
    SetAttrRun(SweepAttrRun(sc, duration, alias, "opacity", One, 0, profile, t_start),
               alias, "visible", 0, profile, t_start)

(***************************************************************************)
(* The scene specification: Scenes are built, Entities are registered in   *)
(* them, instructions are appended to their scripts and frames are asked   *)
(* for.                                                                    *)
(***************************************************************************)
SceneIds == 1..Len(scenes)

FpsValues == {2}

\* the frame numbers the model appends instructions at
Frames == 0..MaxFrame

\* the frame numbers the model asks for
Targets == 0..(MaxFrame + 1)

\* the start_frame arguments of get_frames: the default 0, and 1
Starts == {0, 1}

\* The dict object that is the default value of the `entities` parameter.
DefaultEntities == 1

\* every coordinate of every Entity is within the model's bound
InBounds(h) ==
    \A n \in 1..Len(h) : \A c \in 1..3 : h[n].pos[c] <= MaxCoord /\ h[n].pos[c] >= 0

\* the number of instructions of one script, over its frames F
RECURSIVE ScriptLen(_, _)
ScriptLen(script, F) ==
    IF F = {} THEN 0
    ELSE LET f == CHOOSE g \in F : TRUE
         IN  Len(script[f]) + ScriptLen(script, F \ {f})

\* instructions appended so far, the "" that every __init__ appends left out
RECURSIVE Appended(_, _)
Appended(scs, s) ==
    IF s = 0 THEN 0
    ELSE ScriptLen(scs[s].script, DOMAIN scs[s].script) - 1 + Appended(scs, s - 1)

\* Scene(width, height, resolution, fps)
NewSceneDefault(fps) ==
    /\ Len(scenes) < MaxScenes
    /\ LET r == SceneInit(heap, dicts, fps, DefaultEntities)
       IN  /\ Len(r.heap) <= MaxHeap
           /\ heap' = r.heap
           /\ scenes' = Append(scenes, r.scene)
           /\ ret' = [op |-> "Scene", self |-> Len(scenes) + 1, default |-> TRUE]
    /\ UNCHANGED dicts

\* Scene(width, height, resolution, fps, entities={alias: point})
NewSceneWith(fps, alias, point) ==
    /\ Len(scenes) < MaxScenes
    /\ LET n == Len(heap) + 1
           d == Len(dicts) + 1
           ds == Append(dicts, <<[k |-> StrKey(alias), v |-> n]>>)
           r == SceneInit(Append(heap, point), ds, fps, d)
       IN  /\ Len(r.heap) <= MaxHeap
           /\ heap' = r.heap
           /\ dicts' = ds
           /\ scenes' = Append(scenes, r.scene)
           /\ ret' = [op |-> "Scene", self |-> Len(scenes) + 1, default |-> FALSE]

\* scenes[s].add_entities({alias: Point(pos)})
AddEntities(s, alias, pos) ==
    /\ LET n == Len(heap) + 1
           r == AddEntitiesRun(Append(heap, PointInit(pos)), dicts, scenes[s],
                               <<[k |-> StrKey(alias), v |-> n]>>)
       IN  /\ Len(r.heap) <= MaxHeap
           /\ heap' = r.heap
           /\ dicts' = r.dicts
           /\ scenes' = [scenes EXCEPT ![s] = r.scene]
           /\ ret' = [op |-> "add_entities", self |-> s, alias |-> alias]

\* scenes[s].add_instruction(frame_no, instruction)
AddInstruction(s, frame_no, instruction) ==
    /\ Appended(scenes, Len(scenes)) < MaxInstr
    /\ scenes' = [scenes EXCEPT ![s] = AddInstructionRun(@, frame_no, instruction)]
    /\ ret' = [op |-> "add_instruction", self |-> s, frame_no |-> frame_no]
    /\ UNCHANGED <<heap, dicts>>

\* scenes[s].set_frame_no(frame_no)
SetFrameNoReturns(r, s, frame_no) ==
    /\ InBounds(r.heap)
    /\ heap' = r.heap
    /\ dicts' = r.dicts
    /\ scenes' = [scenes EXCEPT ![s] = r.scene]
    /\ ret' = [op |-> "set_frame_no", self |-> s, frame_no |-> frame_no,
               from |-> scenes[s].current_frame, reset |-> r.reset,
               raised |-> r.raised, args |-> r.args, report |-> r.report, log |-> r.log]

SetFrameNo(s, frame_no) ==
    SetFrameNoReturns(SetFrameNoRun(heap, dicts, scenes[s], frame_no, <<>>), s, frame_no)

\* scenes[s].capture_frame(): result is the image returned, and the empty
\* image when the call raised and returned none
Capture(s) ==
    /\ ret' = [op |-> "capture_frame", self |-> s,
               raised |-> CaptureFrame(heap, dicts, scenes[s]).raised,
               result |-> IF CaptureFrame(heap, dicts, scenes[s]).raised = "None"
                          THEN CaptureFrame(heap, dicts, scenes[s]).img
                          ELSE <<>>]
    /\ UNCHANGED <<heap, dicts, scenes>>

\* scenes[s].get_frames(start_frame, end_frame)
GetFramesReturns(r, s, start_frame, end_frame) ==
    /\ InBounds(r.heap)
    /\ heap' = r.heap
    /\ dicts' = r.dicts
    /\ scenes' = [scenes EXCEPT ![s] = r.scene]
    /\ ret' = [op |-> "get_frames", self |-> s, start_frame |-> start_frame,
               end_frame |-> end_frame, from |-> scenes[s].current_frame,
               raised |-> r.raised, args |-> r.args, report |-> r.report,
               log |-> r.log, result |-> r.result]

GetFrames(s, start_frame, end_frame) ==
    GetFramesReturns(GetFramesRun(heap, dicts, scenes[s], start_frame, end_frame),
                     s, start_frame, end_frame)

(***************************************************************************)
(* The moving specification: Entities are built and moved.                 *)
(***************************************************************************)
\* the arguments move is called with; None is Nothing.  pos is [2, 1, 0] or
\* [1., 1., 0.], dpos is [1, 0, 0], [0, 1, 0] or [0.5, 0., 0.]
MovePos == {Nothing, Some(<<2, 1, 0>>), SomeList(Stored(Doubles(<<1, 1, 0>>)))}

MoveDpos == {Nothing, Some(<<1, 0, 0>>), Some(<<0, 1, 0>>),
             SomeList(Stored(<<F64Of(1, -1), F64Zero, F64Zero>>))}

MoveOri == {Nothing, Some(RotZ)}

MoveDori == {Nothing, Some(RotZ)}

\* every coordinate of every Entity is within the model's bound
Near(h) ==
    \A n \in 1..Len(h) : \A c \in 1..3 :
        /\ ~Pos64(h, n)[c].neg
        /\ ~F64Less(F64Of(MaxCoord, 0), Pos64(h, n)[c])

\* heap[n].move(pos=pos, dpos=dpos, ori=ori, dori=dori)
MoveReturns(r, n, pos, dpos, ori, dori) ==
    /\ Near(r.heap)
    /\ heap' = r.heap
    /\ ret' = [op |-> "move", self |-> n, pos |-> pos, dpos |-> dpos, ori |-> ori,
               dori |-> dori, raised |-> r.raised]
    /\ UNCHANGED <<dicts, scenes>>

MoveCall(n, pos, dpos, ori, dori) ==
    MoveReturns(Move(heap, n, pos, dpos, ori, dori), n, pos, dpos, ori, dori)

\* heap[n].put("pos", np.array(new_val)) for a list of ints new_val
PutCall(n, new_val) ==
    /\ heap' = EntityPut(EntityPut(EntityPut(heap, n, "pos", new_val), n, "pos64", <<>>),
                         n, "real", FALSE)
    /\ ret' = [op |-> "put", self |-> n, attribute |-> "pos", new_val |-> new_val]
    /\ UNCHANGED <<dicts, scenes>>

NextMove ==
    \/ \E a \in EntityArgs : Len(heap) < MaxMoved /\ NewEntity(a[1], a[2])
    \/ \E n \in Nodes, pos \in MovePos : pos.some /\ ~IsReal(pos) /\ PutCall(n, pos.v)
    \/ \E n \in Nodes, pos \in MovePos, dpos \in MoveDpos, ori \in MoveOri,
          dori \in MoveDori : MoveCall(n, pos, dpos, ori, dori)

SpecMove == Init /\ [][NextMove]_vars

\* One Scene: it is built with or without the entities argument, and then
\* used.
Next ==
    \/ \E fps \in FpsValues : Len(scenes) = 0 /\ NewSceneDefault(fps)
    \/ \E fps \in FpsValues, alias \in Aliases :
          Len(scenes) = 0 /\ NewSceneWith(fps, alias, PointInit(<<1, 0, 0>>))
    \/ \E s \in SceneIds, alias \in Aliases : AddEntities(s, alias, <<1, 0, 0>>)
    \/ \E s \in SceneIds, f \in Frames, instruction \in Instructions :
          AddInstruction(s, f, instruction)
    \/ \E s \in SceneIds, f \in Targets : SetFrameNo(s, f)
    \/ \E s \in SceneIds : Capture(s)
    \/ \E s \in SceneIds, f \in Starts, e \in {Nothing} \cup {Some(g) : g \in Targets} :
          (e.some => f <= e.v) /\ GetFrames(s, f, e)

Spec == Init /\ [][Next]_vars

\* Several Scenes, built one after the other and used in any order.
NextScenes ==
    \/ \E fps \in FpsValues : NewSceneDefault(fps)
    \/ \E fps \in FpsValues, alias \in Aliases : NewSceneWith(fps, alias, PointInit(<<1, 0, 0>>))
    \/ \E s \in SceneIds, alias \in Aliases : AddEntities(s, alias, <<1, 0, 0>>)
    \/ \E s \in SceneIds, f \in Frames, instruction \in Instructions :
          AddInstruction(s, f, instruction)

SpecScenes == Init /\ [][NextScenes]_vars

(***************************************************************************)
(* The animation specification: one Scene holding the Point "a" gets its   *)
(* script from the builders of animation.py and is then played.            *)
(***************************************************************************)
\* a quarter second (less than a frame) and a second and a half
Durations == {1, 6}

\* -1 and three quarters of a second
TStarts == {Sentinel, 3}

\* where the Point "a" is built, as floats: Point([12., 0., 0.])
StartPos == <<12, 0, 0>>

\* the durations of the slides: two seconds more, which is four frames
SlideDurations == Durations \cup {8}

Cmds == {MoveBy("a", <<4, 0, 0>>)}

SeekTargets == {MaxSeek}

\* A builder has run on Scene s and left it as sc.
Built(s, sc, r) ==
    /\ ScriptLen(sc.script, DOMAIN sc.script) <= MaxScript
    /\ scenes' = [scenes EXCEPT ![s] = sc]
    /\ ret' = r
    /\ UNCHANGED <<heap, dicts>>

Slide(s, duration, alias, slide_disp, profile, t_start) ==
    Built(s, SlideRun(scenes[s], duration, alias, slide_disp, profile, t_start),
          [op |-> "slide", self |-> s, duration |-> duration, alias |-> alias,
           slide_disp |-> slide_disp, profile |-> profile, t_start |-> t_start])

SlideTo(s, duration, alias, slide_pos, profile, t_start) ==
    Built(s, SlideToRun(scenes[s], duration, alias, slide_pos, profile, t_start),
          [op |-> "slide_to", self |-> s, duration |-> duration, alias |-> alias,
           slide_pos |-> slide_pos, profile |-> profile, t_start |-> t_start])

Pause(s, duration) ==
    Built(s, PauseRun(scenes[s], duration),
          [op |-> "pause", self |-> s, duration |-> duration])

SweepCmd(s, duration, cmd, t_start) ==
    Built(s, SweepCmdRun(scenes[s], duration, cmd, t_start),
          [op |-> "sweep_cmd", self |-> s, duration |-> duration, cmd |-> cmd,
           t_start |-> t_start])

SetCmd(s, cmd, t_start) ==
    Built(s, SetCmdRun(scenes[s], cmd, t_start),
          [op |-> "set_cmd", self |-> s, duration |-> Sentinel, cmd |-> cmd,
           t_start |-> t_start])

SweepAttr(s, duration, alias, attribute, start, end, profile, t_start) ==
    Built(s, SweepAttrRun(scenes[s], duration, alias, attribute, start, end, profile, t_start),
          [op |-> "sweep_attr", self |-> s, duration |-> duration, alias |-> alias,
           attribute |-> attribute, start |-> start, end |-> end,
           profile |-> profile, t_start |-> t_start])

SetAttr(s, alias, attribute, value, profile, t_start) ==
    Built(s, SetAttrRun(scenes[s], alias, attribute, value, profile, t_start),
          [op |-> "set_attr", self |-> s, duration |-> Sentinel, alias |-> alias,
           attribute |-> attribute, start |-> 0, end |-> value,
           profile |-> profile, t_start |-> t_start])

\* set_frame_no(frame_no), on the runs that keep opacities whole tenths and
\* in which no move is refused: a seek that raises leaves current_frame as it
\* was, and the next one executes the same instructions once more
SeekReturns(r, s, frame_no) ==
    /\ r.raised \notin {"NotWhole", "_UFuncOutputCastingError"}
    /\ heap' = r.heap
    /\ dicts' = r.dicts
    /\ scenes' = [scenes EXCEPT ![s] = r.scene]
    /\ ret' = [op |-> "set_frame_no", self |-> s, frame_no |-> frame_no,
               from |-> scenes[s].current_frame, reset |-> r.reset,
               raised |-> r.raised, args |-> r.args, report |-> r.report, log |-> r.log]

Seek(s, frame_no) ==
    SeekReturns(SetFrameNoRun(heap, dicts, scenes[s], frame_no, <<>>), s, frame_no)

NextAnimation ==
    \/ \E fps \in FpsValues : Len(scenes) = 0 /\ NewSceneWith(fps, "a", PointInit64(StartPos))
    \/ \E s \in SceneIds, d \in Durations : Pause(s, d)
    \/ \E s \in SceneIds, d \in SlideDurations, disp \in SlideDisps, p \in Profiles,
             t \in TStarts :
          Slide(s, d, "a", disp, p, t)
    \/ \E s \in SceneIds, d \in SlideDurations, pos \in SlidePositions, p \in Profiles,
             t \in TStarts :
          SlideTo(s, d, "a", pos, p, t)
    \/ \E s \in SceneIds, d \in Durations, cmd \in Cmds, t \in TStarts :
          SweepCmd(s, d, cmd, t)
    \/ \E s \in SceneIds, cmd \in Cmds, t \in TStarts : SetCmd(s, cmd, t)
    \/ \E s \in SceneIds, d \in Durations, w \in Sweeps, p \in Profiles, t \in TStarts :
          SweepAttr(s, d, "a", w[1], w[2], w[3], p, t)
    \/ \E s \in SceneIds, v \in Settings, p \in Profiles, t \in TStarts :
          SetAttr(s, "a", v[1], v[2], p, t)
    \/ \E s \in SceneIds, f \in SeekTargets : Seek(s, f)

SpecAnimation == Init /\ [][NextAnimation]_vars

(***************************************************************************)
(* The fading specification: the Point "a" of one Scene is faded in and    *)
(* out, between commands that lengthen the script, and the script is       *)
(* played.                                                                 *)
(***************************************************************************)
\* the t_start of the fades: -1, 0 s and 0.75 s
FadeStarts == {Sentinel, 0, 3}

\* A fade has run on Scene s and left it as sc.
Faded(s, sc, r) ==
    /\ ScriptLen(sc.script, DOMAIN sc.script) <= MaxFadeScript
    /\ scenes' = [scenes EXCEPT ![s] = sc]
    /\ ret' = r
    /\ UNCHANGED <<heap, dicts>>

FadeIn(s, duration, alias, profile, t_start) ==
    Faded(s, FadeInRun(scenes[s], duration, alias, profile, t_start),
          [op |-> "fade_in", self |-> s, duration |-> duration, alias |-> alias,
           profile |-> profile, t_start |-> t_start])

FadeOut(s, duration, alias, profile, t_start) ==
    Faded(s, FadeOutRun(scenes[s], duration, alias, profile, t_start),
          [op |-> "fade_out", self |-> s, duration |-> duration, alias |-> alias,
           profile |-> profile, t_start |-> t_start])

NextFade ==
    \/ \E fps \in FpsValues : Len(scenes) = 0 /\ NewSceneWith(fps, "a", PointInit(Zero3))
    \/ \E s \in SceneIds, cmd \in Cmds, t \in TStarts : SetCmd(s, cmd, t)
    \/ \E s \in SceneIds, d \in Durations, t \in FadeStarts : FadeIn(s, d, "a", "linear", t)
    \/ \E s \in SceneIds, d \in Durations, t \in FadeStarts : FadeOut(s, d, "a", "linear", t)
    \/ \E s \in SceneIds, f \in SeekTargets : Seek(s, f)

SpecFade == Init /\ [][NextFade]_vars

(***************************************************************************)
(* The span specification: span is called on floats.                       *)
(***************************************************************************)
\* 0, 1, 3, 0.5, -1, 0.1, 0.7, 0.700003, 2^60 and 2^-60
Floats ==
    {F64Zero, F64Of(1, 0), F64Of(3, 0), F64Of(1, -1), F64Of(-1, 0), Value64(1000000),
     Value64(7000000), Value64(7000030), F64Of(1, 60), F64Of(1, -60)}

AllProfiles == {"linear", "quadratic", "neg_quadratic", "sinusoid", "sigmoid"}

\* (n_elems, profile): one or two elements of every profile, three and six
\* of the profiles that are worked out with the four operations
SpanShapes ==
    ({1, 2} \X AllProfiles) \cup ({3, 6} \X {"linear", "quadratic", "neg_quadratic"})

\* the arguments of a call are drawn at the start
InitSpan ==
    /\ heap = <<>>
    /\ dicts = <<<<>>>>
    /\ scenes = <<>>
    /\ ret \in {[op |-> "arguments", start |-> a, end |-> b, n_elems |-> w[1],
                 profile |-> w[2]] : a \in Floats, b \in Floats, w \in SpanShapes}

\* span(start, end, n_elems, profile) for floats start and end: the result
\* has one column
SpanCall ==
    /\ ret.op = "arguments"
    /\ ret' = [op |-> "span", start |-> ret.start, end |-> ret.end,
               n_elems |-> ret.n_elems, profile |-> ret.profile,
               result |-> Span(<<ret.start>>, <<ret.end>>, ret.n_elems, ret.profile)]
    /\ UNCHANGED <<heap, dicts, scenes>>

NextSpan == SpanCall

SpecSpan == InitSpan /\ [][NextSpan]_vars

(***************************************************************************)
(* funcs.dist_to_poly, in the plane z = 0.  The coordinates given are      *)
(* whole numbers of half units and the direction is a whole vector; the    *)
(* code works on doubles, and so does the model.  np.dot is taken as the   *)
(* products added from left to right, each rounded.                        *)
(***************************************************************************)
\* the double of a coordinate given in half units
Coord(c) == F64Of(c, -1)

\* the whole vector v over the double dist
Over(v, dist) == <<F64Div(F64Of(v[1], 0), dist), F64Div(F64Of(v[2], 0), dist)>>

\* a = dir / np.linalg.norm(dir), the norm being sqrt(dir.dot(dir))
UnitRay(dir) == Over(dir, F64Sqrt(F64Of(dir[1] * dir[1] + dir[2] * dir[2], 0)))

\* v - point.gpos()
Offset(point, v) ==
    <<F64Sub(Coord(v[1]), Coord(point[1])), F64Sub(Coord(v[2]), Coord(point[2]))>>

\* np.dot(a, w)
Along(a, w) == F64Add(F64Mul(a[1], w[1]), F64Mul(a[2], w[2]))

\* np.dot(n, w), n = [-a[1], a[0], 0]
Across(a, w) == F64Add(F64Mul(F64Neg(a[2]), w[1]), F64Mul(a[1], w[2]))

\* ax_start alone: the distance to the start of the segment
FwdDistAtStart(ns, ne, as, ae) == as

\* ax_start + ((0 - norm_start) / (norm_end - norm_start) * (ax_end - ax_start))
FwdDist(ns, ne, as, ae) ==
    F64Add(as, F64Mul(F64Div(F64Sub(F64Zero, ns), F64Sub(ne, ns)), F64Sub(ae, as)))

Infinite == [inf |-> TRUE, v |-> F64Zero]

Finite(x) == [inf |-> FALSE, v |-> x]

\* a crossing that forgets the ones behind the point
CrossingForward(r, fwd_dist) ==
    IF F64Less(fwd_dist, F64Zero) THEN r
    ELSE IF r.min.inf \/ F64Less(fwd_dist, r.min.v)
         THEN [r EXCEPT !.min = Finite(fwd_dist)]
    ELSE r

\* the two tests on fwd_dist: r holds min_line_fwd_dist and inside_factor
Crossing(r, fwd_dist) ==
    IF F64Less(fwd_dist, F64Zero) THEN [r EXCEPT !.inside_factor = -1]
    ELSE IF r.min.inf \/ F64Less(fwd_dist, r.min.v)
         THEN [r EXCEPT !.min = Finite(fwd_dist)]
    ELSE r

\* One pass of the loop over the line segments.  With norm_end =
\* norm_start, both 0, the quotient is 0. / 0., a nan, which is less than
\* nothing.
EdgeStep(r, ns, ne, as, ae) ==
    IF F64Less(F64Zero, F64Mul(ns, ne)) THEN r
    ELSE IF ne = ns THEN r
    ELSE Crossing(r, FwdDist(ns, ne, as, ae))

\* the pass for the segment from start to end, ws and we being their offsets
EdgePass(r, a, ws, we) ==
    EdgeStep(r, Across(a, ws), Across(a, we), Along(a, ws), Along(a, we))

\* for i in range(len(vertices)): st holds the locals a, i and r
RECURSIVE EdgeLoop(_, _, _)
EdgeLoop(vertices, point, st) ==
    IF st.i > Len(vertices) THEN st.r
    ELSE EdgeLoop(vertices, point,
            [a |-> st.a, i |-> st.i + 1,
             r |-> EdgePass(st.r, st.a,
                            Offset(point, vertices[st.i]),
                            Offset(point, vertices[(st.i % Len(vertices)) + 1]))])

\* inside_factor * min_line_fwd_dist
Signed(r) ==
    [inf |-> r.min.inf,
     v |-> IF r.inside_factor < 0 THEN F64Neg(r.min.v) ELSE r.min.v,
     negative |-> r.inside_factor < 0 /\ (r.min.inf \/ r.min.v # F64Zero)]

\* dist_to_poly(poly, point, dir) for the polygon of the given vertices
DistToPoly(vertices, point, dir) ==
    Signed(EdgeLoop(vertices, point,
                    [a |-> UnitRay(dir), i |-> 1,
                     r |-> [min |-> Infinite, inside_factor |-> 1]]))

(***************************************************************************)
(* The ray specification: dist_to_poly is called on convex polygons.       *)
(***************************************************************************)
\* the unit square centered at the origin, and a square on its corner
Polygons ==
    {<<<<1, 1>>, <<-1, 1>>, <<-1, -1>>, <<1, -1>>>>,
     <<<<2, 0>>, <<0, 2>>, <<-2, 0>>, <<0, -2>>>>}

RayPoints == {-4, -1, 0, 1, 4} \X {-3, -1, 0, 1}

\* (direction, its length); the length is kept for the properties
RayDirs == {<<<<1, 0>>, 1>>, <<<<-1, 0>>, 1>>, <<<<0, 2>>, 2>>, <<<<0, -1>>, 1>>}

\* the arguments of a call are drawn at the start
InitRay ==
    /\ heap = <<>>
    /\ dicts = <<<<>>>>
    /\ scenes = <<>>
    /\ ret \in {[op |-> "arguments", poly |-> vertices, point |-> point,
                 dir |-> d[1], len |-> d[2]] :
                    vertices \in Polygons, point \in RayPoints, d \in RayDirs}

DistToPolyCall ==
    /\ ret.op = "arguments"
    /\ ret' = [op |-> "dist_to_poly", poly |-> ret.poly, point |-> ret.point,
               dir |-> ret.dir, len |-> ret.len,
               result |-> DistToPoly(ret.poly, ret.point, ret.dir)]
    /\ UNCHANGED <<heap, dicts, scenes>>

NextRay == DistToPolyCall

SpecRay == InitRay /\ [][NextRay]_vars

(***************************************************************************)
(* calc_flatness (projects/001_2d_flatness_calc).  Points have whole       *)
(* coordinates; directions, slopes, dot products and separations are       *)
(* doubles, as in the code.  The literal [0, 0] is a row of two zeros; an  *)
(* unassigned local is <<>>.  np.dot is taken as the products added from   *)
(* left to right, each rounded.  n ** .5 is the pow of the C library,      *)
(* which gives one of the two doubles the root lies between (the root when *)
(* it is a double), and which of the two is a matter of the build: for     *)
(* most n the nearer one, for some n the farther one.  A build is the set  *)
(* `far` of the n for which its pow gives the farther one.                 *)
(***************************************************************************)
\* n ** .5 for a whole number n > 0, on the build far
PowHalf(n, far) ==
    IF n \in far THEN F64SqrtFar(F64Of(n, 0)) ELSE F64Sqrt(F64Of(n, 0))

\* np.array_equal(point, anchor) is false: dist = (dx ** 2 + dy ** 2) ** .5
\* and the direction [dx / dist, dy / dist]
UnitDir(anchor, point, far) ==
    Over(<<point[1] - anchor[1], point[2] - anchor[2]>>,
         PowHalf((point[1] - anchor[1]) * (point[1] - anchor[1])
                   + (point[2] - anchor[2]) * (point[2] - anchor[2]), far))

\* np.dot(slope, dir)
DotUnit(slope, dir) == F64Add(F64Mul(slope[1], dir[1]), F64Mul(slope[2], dir[2]))

\* -slope
Opposite(slope) == <<F64Neg(slope[1]), F64Neg(slope[2])>>

\* np.argmax(dot_prods): the first index that holds the largest value
ArgMaxDot(dot_prods) ==
    CHOOSE i \in 1..Len(dot_prods) :
        \A j \in 1..Len(dot_prods) :
            /\ ~F64Less(dot_prods[i], dot_prods[j])
            /\ j < i => F64Less(dot_prods[j], dot_prods[i])

\* what one point adds for one anchor: a row of dirs and a dot product of
\* the slope with the local dir, whatever it holds
AssessPoint(acc, slope, differs, dir) ==
    [dirs      |-> Append(acc.dirs, IF differs THEN dir ELSE <<F64Zero, F64Zero>>),
     dot_prods |-> IF dir = <<>> THEN acc.dot_prods
                   ELSE Append(acc.dot_prods, DotUnit(slope, dir)),
     dir       |-> dir,
     raised    |-> dir = <<>>]

\* One pass of `for i in range(np.size(points, 0))` for one anchor: the
\* direction is assigned only when the point differs from the anchor.
RECURSIVE Assess(_, _, _, _, _, _)
Assess(points, i, anchor, slope, acc, far) ==
    IF i > Len(points) \/ acc.raised THEN acc
    ELSE Assess(points, i + 1, anchor, slope,
                AssessPoint(acc, slope, points[i] # anchor,
                            IF points[i] # anchor THEN UnitDir(anchor, points[i], far)
                            ELSE acc.dir),
                far)

\* abs(np.dot(p1 - p0, [-p0_slope[1], p0_slope[0]]))
Separation(p0, p1, p0_slope) ==
    F64Abs(F64Add(F64Mul(F64Of(p1[1] - p0[1], 0), F64Neg(p0_slope[2])),
                  F64Mul(F64Of(p1[2] - p0[2], 0), p0_slope[1])))

\* np.min(flatness_step_vals)
MinVal(vals) ==
    vals[CHOOSE i \in 1..Len(vals) :
            \A j \in 1..Len(vals) :
                /\ ~F64Less(vals[j], vals[i])
                /\ j < i => F64Less(vals[i], vals[j])]

\* the end of a pass: the anchors and slopes it chose are recorded
Rolled(f, a0, a1, p0, p1, p0_slope) ==
    [f EXCEPT !.p0 = p0, !.p1 = p1,
              !.p0_slope = p0_slope, !.p1_slope = Opposite(p0_slope),
              !.p0_dir = a0.dir, !.p1_dir = a1.dir,
              !.p0_vals = Append(@, p0), !.p1_vals = Append(@, p1),
              !.flatness_step_vals = Append(@, Separation(p0, p1, p0_slope))]

\* if p0_max_dp >= p1_max_dp, at the indexes i0 and i1 of the two maxima
RollTo(f, a0, a1, i0, i1) ==
    IF ~F64Less(a0.dot_prods[i0], a1.dot_prods[i1])
    THEN Rolled(f, a0, a1, f.points[i0], f.p1, a0.dirs[i0])
    ELSE Rolled(f, a0, a1, f.p0, f.points[i1], Opposite(a1.dirs[i1]))

\* The body of the while loop, on the locals f of the call.
Roll(f, a0, a1) ==
    IF a0.raised \/ a1.raised
    THEN [f EXCEPT !.pc = "raised", !.error = "UnboundLocalError"]
    ELSE RollTo(f, a0, a1, ArgMaxDot(a0.dot_prods), ArgMaxDot(a1.dot_prods))

\* the quadrilaterals and the triangle whose orderings are the inputs,
\* three points on one line, whose directions are equal but for rounding,
\* and two sets of four points with the distances 3541 ** .5 and 14170 ** .5
FlatPointSets == {{<<0, 0>>, <<10, 0>>, <<10, 1>>, <<0, 1>>},
                  {<<0, 5>>, <<2, 0>>, <<4, 6>>, <<3, 2>>},
                  {<<3, 1>>, <<0, 0>>, <<1, 3>>},
                  {<<6, 8>>, <<5, 9>>, <<9, 5>>},
                  {<<20, 10>>, <<0, 0>>, <<50, 108>>, <<25, 54>>},
                  {<<20, 20>>, <<0, 0>>, <<3, 119>>, <<60, 40>>}}

\* the builds: pow gives the nearer double for every n met here, or, as
\* that of glibc 2.36 on x86-64 does, the farther one for 3541 and 14170
\* (59.506302187247364 and 119.03780911962383)
Builds == {{}, {3541, 14170}}

FlatInputs == UNION {{p \in [1..Cardinality(S) -> S] :
                          \A i, j \in 1..Cardinality(S) : p[i] = p[j] => i = j} :
                     S \in FlatPointSets}

\* calc_flatness(points) up to the while loop, on the build far
CalcFlatnessCall(points, far) ==
    /\ ret.op = "calc_flatness" => ret.pc # "loop"
    /\ LET ys == [i \in 1..Len(points) |-> points[i][2]]
           n0 == CHOOSE i \in 1..Len(points) :
                    \A j \in 1..Len(points) :
                        ys[j] >= ys[i] /\ (j < i => ys[j] > ys[i])
           n1 == CHOOSE i \in 1..Len(points) :
                    \A j \in 1..Len(points) :
                        ys[j] <= ys[i] /\ (j < i => ys[j] < ys[i])
       IN  ret' = [op |-> "calc_flatness", pc |-> "loop", error |-> "",
                   points |-> points, far |-> far, n0 |-> n0, n1 |-> n1,
                   p0 |-> points[n0], p1 |-> points[n1],
                   p0_slope |-> <<F64Of(1, 0), F64Zero>>,
                   p1_slope |-> <<F64Of(-1, 0), F64Zero>>,
                   p0_dir |-> <<>>, p1_dir |-> <<>>,
                   p0_vals |-> <<>>, p1_vals |-> <<>>,
                   flatness_step_vals |-> <<>>, flatness |-> <<>>]
    /\ UNCHANGED <<heap, dicts, scenes>>

\* the while condition holds: one pass of the loop
CalcFlatnessRoll ==
    /\ ret.op = "calc_flatness" /\ ret.pc = "loop"
    /\ ret.p0 # ret.points[ret.n1] /\ ret.p1 # ret.points[ret.n0]
    /\ Len(ret.flatness_step_vals) < MaxRolls
    /\ ret' = Roll(ret,
                   Assess(ret.points, 1, ret.p0, ret.p0_slope,
                          [dirs |-> <<>>, dot_prods |-> <<>>,
                           dir |-> ret.p0_dir, raised |-> FALSE], ret.far),
                   Assess(ret.points, 1, ret.p1, ret.p1_slope,
                          [dirs |-> <<>>, dot_prods |-> <<>>,
                           dir |-> ret.p1_dir, raised |-> FALSE], ret.far))
    /\ UNCHANGED <<heap, dicts, scenes>>

\* the while condition fails: np.min of what was recorded
CalcFlatnessReturn ==
    /\ ret.op = "calc_flatness" /\ ret.pc = "loop"
    /\ ret.p0 = ret.points[ret.n1] \/ ret.p1 = ret.points[ret.n0]
    /\ ret' = IF Len(ret.flatness_step_vals) = 0
              THEN [ret EXCEPT !.pc = "raised", !.error = "ValueError"]
              ELSE [ret EXCEPT !.pc = "returned",
                               !.flatness = MinVal(ret.flatness_step_vals)]
    /\ UNCHANGED <<heap, dicts, scenes>>

NextFlatness ==
    \/ \E points \in FlatInputs, far \in Builds : CalcFlatnessCall(points, far)
    \/ CalcFlatnessRoll
    \/ CalcFlatnessReturn

SpecFlatness == Init /\ [][NextFlatness]_vars

(***************************************************************************)
(* Jagged sampling (entities/contour2d.py).  The state of numpy's global   *)
(* generator is the seed it was last given and the number of values drawn  *)
(* since; the state a call finds is whatever earlier draws left, and is an *)
(* input of the call.  A coordinate is the pair <<num, den>>; a normal is  *)
(* a whole vector with its length.                                         *)
(***************************************************************************)
\* A bug the sampling could have: the generator is left as it was found.
SeedIgnored(state, seed) == state

\* np.random.seed(seed)
SeedState(state, seed) == [seed |-> seed, drawn |-> 0]

\* the next value of the generator, in 0..MaxDraw
Value(state) == (state.seed * 3 + state.drawn * (state.seed + 2)) % (MaxDraw + 1)

\* k values drawn one after the other
RECURSIVE Draws(_, _)
Draws(state, k) ==
    IF k = 0 THEN <<>>
    ELSE <<Value(state)>> \o Draws([state EXCEPT !.drawn = @ + 1], k - 1)

RECURSIVE SumTo(_, _)
SumTo(w, k) == IF k = 0 THEN 0 ELSE w[k] + SumTo(w, k - 1)

\* LineContour2D.segments: the spacings are the weights 1 + draw over their
\* sum, preceded by 0; the points are start + cumsum(spaces) * (end - start)
LineSegments(c, state) ==
    LET seeded == SeedState(state, c.seed)
        w == Draws(seeded, c.n_points - 1)
        total == SumTo(w, Len(w)) + Len(w)
        d == <<c.end[1] - c.start[1], c.end[2] - c.start[2]>>
    IN  [points  |-> [i \in 1..c.n_points |->
                        [x \in 1..2 |-> <<c.start[x] * total
                                          + (SumTo(w, i - 1) + (i - 1)) * d[x], total>>]],
         normals |-> [i \in 1..c.n_points |-> [v |-> <<-d[2], d[1]>>, len |-> c.len]],
         state   |-> [seeded EXCEPT !.drawn = @ + Len(w)]]

\* Contour2D.segments: the segments of the components, stacked; the classes
\* of lines and arcs override it
RECURSIVE Segments(_, _, _)
Segments(h, n, state) ==
    IF h[n].kind = "LineContour2D" THEN LineSegments(h[n], state)
    ELSE LET RECURSIVE Stack(_, _)
             Stack(k, acc) ==
                 IF k > Len(h[n].components) THEN acc
                 ELSE LET s == Segments(h, h[n].components[k], acc.state)
                      IN  Stack(k + 1, [points  |-> acc.points \o s.points,
                                        normals |-> acc.normals \o s.normals,
                                        state   |-> s.state])
         IN  Stack(1, [points |-> <<>>, normals |-> <<>>, state |-> state])

\* Contour2D.jagged_points from the generator state it finds
JaggedPoints(h, n, state) ==
    LET s == Segments(h, n, SeedState(state, h[n].seed))
        k == Len(s.points)
        u == Draws(s.state, k)
        offsets == [i \in 1..k |-> IF i = 1 \/ i = k THEN 0
                                   ELSE h[n].jaggedness * (2 * u[i] - MaxDraw)]
    IN  IF k = 0 THEN [raised |-> "IndexError", points |-> <<>>, offsets |-> <<>>,
                       state |-> [s.state EXCEPT !.drawn = @ + k]]
        ELSE [raised |-> "None",
              points |-> [i \in 1..k |-> [x \in 1..2 |->
                            <<s.points[i][x][1] * MaxDraw * s.normals[i].len
                              + offsets[i] * s.normals[i].v[x] * s.points[i][x][2],
                              s.points[i][x][2] * MaxDraw * s.normals[i].len>>]],
              offsets |-> offsets,
              state |-> [s.state EXCEPT !.drawn = @ + k]]

\* (start, end, length, jaggedness, n_points, seed) of the lines built
LineArgs == {<<<<0, 0>>, <<4, 0>>, 4, 2, 3, 0>>,
             <<<<1, 1>>, <<4, 5>>, 5, 1, 4, 1>>,
             <<<<0, 2>>, <<0, 0>>, 2, 0, 2, 1>>}

\* the generator states a call may find
GeneratorStates == [seed : 0..2, drawn : 0..2]

\* LineContour2D(start, end, jaggedness=.., n_points=.., seed=..)
NewLine(a) ==
    /\ Len(heap) < MaxContours
    /\ LET n == Len(heap) + 1
           line == OfFloats(EntityWith("LineContour2D", Zero3, OpacityOne, TRUE))
                   @@ [start |-> a[1], end |-> a[2], len |-> a[3],
                       jaggedness |-> a[4], n_points |-> a[5], seed |-> a[6]]
           r == AddComponentsRun(Append(heap, line), n, <<ArgList(<<ArgEnt(n)>>)>>)
       IN  /\ heap' = r.heap
           /\ ret' = [op |-> "LineContour2D", self |-> n, raised |-> r.raised]
    /\ UNCHANGED <<dicts, scenes>>

\* Contour2D(contours=[...], jaggedness=.., seed=..) of the lines built so far
NewOutline(jaggedness, seed) ==
    /\ Len(heap) < MaxContours
    /\ \A k \in 1..Len(heap) : heap[k].kind = "LineContour2D"
    /\ LET n == Len(heap) + 1
           outline == OfFloats(EntityWith("Contour2D", Zero3, OpacityOne, TRUE))
                      @@ [jaggedness |-> jaggedness, n_points |-> 30, seed |-> seed]
           r == AddComponentsRun(Append(heap, outline), n,
                                 <<ArgList([k \in 1..Len(heap) |-> ArgEnt(k)])>>)
       IN  /\ heap' = r.heap
           /\ ret' = [op |-> "Contour2D", self |-> n, raised |-> r.raised]
    /\ UNCHANGED <<dicts, scenes>>

\* n.jagged_points(), called when the generator is in the state `state`
JaggedPointsCall(n, state) ==
    /\ ret' = [op |-> "jagged_points", self |-> n, before |-> state,
               result |-> JaggedPoints(heap, n, state)]
    /\ UNCHANGED <<heap, dicts, scenes>>

NextJagged ==
    \/ \E a \in LineArgs : NewLine(a)
    \/ \E jaggedness \in {1, 3}, seed \in {0, 2} : NewOutline(jaggedness, seed)
    \/ \E n \in Nodes, state \in GeneratorStates : JaggedPointsCall(n, state)

SpecJagged == Init /\ [][NextJagged]_vars

(***************************************************************************)
(* Properties of the scene graph.                                          *)
(***************************************************************************)
\* Following the parent pointers from n reaches a global entity (parent=None).
RECURSIVE ReachesTop(_, _, _)
ReachesTop(h, n, depth) ==
    IF h[n].parent = None THEN TRUE
    ELSE IF depth > Len(h) THEN FALSE
    ELSE ReachesTop(h, h[n].parent, depth + 1)

\* How often n stands in the components lists of h.
Occurrences(h, n) ==
    LET RECURSIVE Count(_)
        Count(k) ==
            IF k = 0 THEN 0
            ELSE Cardinality({i \in 1..Len(h[k].components) : h[k].components[i] = n})
                 + Count(k - 1)
    IN  Count(Len(h))

\* The sum of the local positions of n and of all its ancestors.
RECURSIVE ChainSum(_, _)
ChainSum(h, n) ==
    IF h[n].parent = None THEN h[n].pos
    ELSE VecAdd(h[n].pos, ChainSum(h, h[n].parent))

\* n and all its ancestors have the identity orientation.
RECURSIVE ChainIdentity(_, _)
ChainIdentity(h, n) ==
    /\ h[n].ori = Identity3
    /\ h[n].parent = None \/ ChainIdentity(h, h[n].parent)

\* C6: after every construction and every attach, the parent/child graph is
\* a tree: every node's parent chain ends at a parentless node (no node is
\* its own parent or ancestor), every node stands at most once in all the
\* components lists together, and an attach never changes a parent pointer
\* that was already set.
C6_TreeInvariant ==
    [][ /\ \A n \in 1..Len(heap') :
              ReachesTop(heap', n, 0) /\ Occurrences(heap', n) <= 1
        /\ \A n \in Nodes :
              (ret'.op = "add_components" /\ heap[n].parent # None)
                  => heap'[n].parent = heap[n].parent ]_vars

\* C7: an add_components call that raises ValueError leaves every components
\* list and every parent pointer as it was before the call.
C7_AttachAtomic ==
    [][ (ret'.op = "add_components" /\ ret'.raised = "ValueError")
            => heap' = heap ]_vars

\* C9: for every node n with a parent p whose chain ends at a global
\* entity, gpos(n) = gpos(p) + gori(p) @ pos(n).
C9_GlobalComposition ==
    \A n \in Nodes :
        LET p == heap[n].parent
        IN  (p # None /\ ReachesTop(heap, n, 0))
                => Gpos(heap, n).val =
                       VecAdd(Gpos(heap, p).val, MatVec(Gori(heap, p).val, Pos(heap, n)))

\* C10: a gpos() call on a node whose chain ends at a global entity and has
\* only identity orientations returns the sum of the local positions of the
\* node and all its ancestors, the global entity included, and changes no
\* node.
C10_IdentityChainSum ==
    [][ ret'.op = "gpos"
            => /\ heap' = heap
               /\ (ReachesTop(heap, ret'.self, 0) /\ ChainIdentity(heap, ret'.self))
                      => ret'.result =
                             [raised |-> "None", val |-> ChainSum(heap, ret'.self)] ]_vars

\* C10 happens: gpos() was called on the leaf of three nested Entities, each
\* at [1, 0, 0] with the identity orientation, and returned [3, 0, 0].
C10_Witness ==
    /\ ret.op = "gpos"
    /\ LET n == ret.self
           p == heap[n].parent
       IN  /\ p # None /\ p # n
           /\ heap[p].parent \notin {None, n, p}
           /\ heap[heap[p].parent].parent = None
           /\ \A k \in {n, p, heap[p].parent} :
                  heap[k].pos = <<1, 0, 0>> /\ heap[k].ori = Identity3
           /\ ret.result = [raised |-> "None", val |-> <<3, 0, 0>>]

(***************************************************************************)
(* Properties of the Scene.                                                *)
(***************************************************************************)
\* The dict scenes[s].entities refers to.
Entities(s) == dicts[scenes[s].entities]

\* The <<frame, index>> of the instructions of frames lo .. hi - 1, in
\* ascending frame order and, within one frame, in the order of its list.
RECURSIVE Scheduled(_, _, _)
Scheduled(script, lo, hi) ==
    IF lo >= hi THEN <<>>
    ELSE (IF lo \in DOMAIN script THEN [j \in 1..Len(script[lo]) |-> <<lo, j>>] ELSE <<>>)
         \o Scheduled(script, lo + 1, hi)

IsPrefix(u, v) == Len(u) <= Len(v) /\ SubSeq(v, 1, Len(u)) = u

\* The instruction targets an alias that is no key of the dict.
Fails(entities, instruction) ==
    instruction.op # "" /\ ~HasKey(entities, StrKey(instruction.alias))

\* The heap after the instructions of frames [0, N) of scenes[s] are run on
\* the Entities of its snapshot entities_init.
Replayed(s, N) ==
    ReplayRun(heap, scenes[s].entities_init, scenes[s], 0, 1, N, NoReport, <<>>).heap

\* C1: a backward seek (frame_no < current_frame) on a scene with at least
\* one registered entity completes without error, leaves current_frame =
\* frame_no and every entity in the state that replaying frames [0, frame_no)
\* from its entities_init snapshot gives.
C1_SeekDeterminism ==
    (ret.op = "set_frame_no" /\ ret.frame_no < ret.from /\ Len(Entities(ret.self)) >= 1)
        => /\ ret.raised = "None"
           /\ scenes[ret.self].current_frame = ret.frame_no
           /\ \A x \in 1..Len(Entities(ret.self)) :
                  /\ HasKey(scenes[ret.self].entities_init, Entities(ret.self)[x].k)
                  /\ heap[Entities(ret.self)[x].v] =
                         Replayed(ret.self, ret.frame_no)[
                             Get(scenes[ret.self].entities_init, Entities(ret.self)[x].k)]

\* C2: a seek with current_frame <= frame_no in which no instruction raises
\* does no reset, executes exactly the instructions of frames current_frame
\* .. frame_no - 1, each once, in frame order and then in append order, and
\* ends with current_frame = frame_no; for frame_no = current_frame it
\* executes nothing and changes no Entity.  add_instruction keeps every
\* list of the script as a prefix of what it becomes.
C2_ForwardSeek ==
    [][ /\ (ret'.op = "set_frame_no" /\ ret'.from <= ret'.frame_no /\ ret'.raised = "None")
            => /\ ~ret'.reset
               /\ ret'.log = Scheduled(scenes[ret'.self].script, ret'.from, ret'.frame_no)
               /\ scenes'[ret'.self].current_frame = ret'.frame_no
               /\ scenes'[ret'.self].script = scenes[ret'.self].script
               /\ ret'.from = ret'.frame_no => (ret'.log = <<>> /\ heap' = heap)
        /\ ret'.op = "add_instruction"
            => \A f \in DOMAIN scenes[ret'.self].script :
                  /\ f \in DOMAIN scenes'[ret'.self].script
                  /\ IsPrefix(scenes[ret'.self].script[f], scenes'[ret'.self].script[f]) ]_vars

\* C2 happens: a forward seek over more than one frame executed two
\* instructions of one frame.
C2_Witness ==
    /\ ret.op = "set_frame_no" /\ ret.raised = "None" /\ ~ret.reset
    /\ ret.frame_no > ret.from + 1
    /\ \E i \in 1..Len(ret.log) : ret.log[i][2] = 2

\* The exception with the args `args` names x: x is one of its args.
Names(args, x) == \E k \in 1..Len(args) : args[k] = x

\* C3: when an instruction fails during a get_frames call, the call raises
\* and returns no frame; the instructions it executed are the scheduled ones
\* up to the first failing one and none after it; the error raised names
\* the frame of that instruction, the time frame / fps and the text of the
\* instruction, which are also what is printed.
C3_ReplayFailFast ==
    (ret.op = "get_frames" /\ ret.report # NoReport)
        => LET sc == scenes[ret.self]
               lo == IF ret.start_frame < ret.from THEN 0 ELSE ret.from
               f == ret.report.frame
               n == Len(ret.log)
           IN  /\ ret.raised # "None" /\ ret.result = Nothing
               /\ n > 0 /\ ret.log[n][1] = f
               /\ ret.log = SubSeq(Scheduled(sc.script, lo, f + 1), 1, n)
               /\ ret.report.instruction = sc.script[f][ret.log[n][2]]
               /\ Fails(Entities(ret.self), ret.report.instruction)
               /\ \A i \in 1..(n - 1) :
                      ~Fails(Entities(ret.self), sc.script[ret.log[i][1]][ret.log[i][2]])
               /\ ret.report.time = <<f, sc.fps>>
               /\ Names(ret.args, IntKey(f))
               /\ Names(ret.args, [time |-> ret.report.time])
               /\ Names(ret.args, [text |-> ret.report.instruction])

\* The step registered the alias of item x of the snapshot of scene s.
Registers(s, k) ==
    \/ s > Len(scenes)
    \/ ret'.op = "add_entities" /\ ret'.self = s /\ StrKey(ret'.alias) = k

\* C4: no Entity is reachable both from a snapshot entities_init and from
\* an entities dict; the snapshot of an alias equals the Entity passed when
\* the alias is registered, and no later step changes it.
C4_SnapshotIndependence ==
    [][ \A s \in 1..Len(scenes') :
          /\ \A t \in 1..Len(scenes') :
                Reach(heap', {scenes'[s].entities_init[x].v :
                                  x \in 1..Len(scenes'[s].entities_init)})
                \cap Reach(heap', {dicts'[scenes'[t].entities][y].v :
                                       y \in 1..Len(dicts'[scenes'[t].entities])}) = {}
          /\ \A x \in 1..Len(scenes'[s].entities_init) :
                LET k == scenes'[s].entities_init[x].k
                    v == scenes'[s].entities_init[x].v
                IN  IF Registers(s, k)
                    THEN /\ HasKey(dicts'[scenes'[s].entities], k)
                         /\ heap'[v] = heap'[Get(dicts'[scenes'[s].entities], k)]
                    ELSE /\ HasKey(scenes[s].entities_init, k)
                         /\ heap'[v] = heap[Get(scenes[s].entities_init, k)] ]_vars

\* C4 happens: a seek moved a registered Entity, and its snapshot still is
\* where it was registered.
C4_Witness ==
    /\ ret.op = "set_frame_no"
    /\ \E x \in 1..Len(Entities(ret.self)) :
          /\ HasKey(scenes[ret.self].entities_init, Entities(ret.self)[x].k)
          /\ heap[Entities(ret.self)[x].v].pos = <<2, 0, 0>>
          /\ heap[Get(scenes[ret.self].entities_init, Entities(ret.self)[x].k)].pos
                 = <<1, 0, 0>>

\* C5: a get_frames(start, end) call with start <= end in which no
\* instruction fails returns end - start + 1 buffers, the last one being the
\* capture of the scene as the call leaves it, with current_frame = end; an
\* omitted end is the largest frame number of the script.
C5_FramesResult ==
    (ret.op = "get_frames" /\ ret.report = NoReport)
        => LET sc == scenes[ret.self]
               end == IF ret.end_frame.some THEN ret.end_frame.v ELSE MaxKey(sc.script)
           IN  ret.start_frame <= end
                   => /\ ret.raised = "None" /\ ret.result.some
                      /\ Len(ret.result.v) = end - ret.start_frame + 1
                      /\ ret.result.v[Len(ret.result.v)] = CaptureFrame(heap, dicts, sc).img
                      /\ sc.current_frame = end

\* C8: a Scene built without the entities argument has empty entities and
\* empty entities_init, and add_entities on one Scene leaves the entities of
\* every other Scene as they were.
C8_CreatedEmpty ==
    [][ /\ (ret'.op = "Scene" /\ ret'.default)
            => /\ dicts'[scenes'[ret'.self].entities] = <<>>
               /\ scenes'[ret'.self].entities_init = <<>>
        /\ ret'.op = "add_entities"
            => \A t \in (1..Len(scenes)) \ {ret'.self} :
                  dicts'[scenes'[t].entities] = dicts[scenes[t].entities] ]_vars

(***************************************************************************)
(* Properties of opacity, drawing and moving.                              *)
(***************************************************************************)
\* The node and its ancestors: what the parent pointers lead to from n.
Chain(h, n) ==
    LET up[k \in 0..Len(h)] ==
            IF k = 0 THEN n
            ELSE IF up[k - 1] = None THEN None ELSE h[up[k - 1]].parent
    IN  {up[k] : k \in 0..Len(h)} \ {None}

\* The product of the opacities of the nodes of S, as numerator and
\* denominator.
RECURSIVE OpacityProduct(_, _)
OpacityProduct(h, S) ==
    IF S = {} THEN <<1, 1>>
    ELSE LET n == CHOOSE x \in S : TRUE
             rest == OpacityProduct(h, S \ {n})
         IN  <<h[n].opacity * rest[1], OpacityOne * rest[2]>>

\* C11: get_opacity of a node whose parent chain ends at a parentless node
\* returns the product of the opacities of the node and of each of its
\* ancestors, each taken once, whatever their visible flags; the call
\* changes no Entity.
C11_EffectiveOpacity ==
    [][ ret'.op = "get_opacity"
            => /\ heap' = heap
               /\ ReachesTop(heap, ret'.self, 0)
                    => ret'.result = [raised |-> "None",
                                      val |-> OpacityProduct(heap, Chain(heap, ret'.self))] ]_vars

\* C11 happens: the leaf of a chain with opacities 0.5, 0.5 and 0.4 has the
\* effective opacity 0.1.
C11_Witness ==
    /\ ret.op = "get_opacity"
    /\ Len(heap) = 3 /\ ret.self = 3
    /\ heap[3].parent = 2 /\ heap[2].parent = 1 /\ heap[1].parent = None
    /\ heap[1].opacity = 5 /\ heap[2].opacity = 5 /\ heap[3].opacity = 4
    /\ ret.result.raised = "None"
    /\ ret.result.val[1] * 10 = ret.result.val[2] * 1

\* the doubles of an optional list
Arg64(o) == Unstored(o.v, Given64(o))

\* C12: move(pos=p, dpos=d) sets the position to p, move(dpos=d) adds d to
\* it, and without both the position stays; likewise ori wins over the
\* rotation dori, which alone rotates the orientation; pos and dpos do not
\* touch the orientation nor ori and dori the position, and no other Entity
\* changes.
C12_MovePrecedence ==
    [][ ret'.op = "move"
            => LET n == ret'.self
               IN  /\ ret'.pos.some => Pos64(heap', n) = Arg64(ret'.pos)
                   /\ (~ret'.pos.some /\ ret'.dpos.some)
                        => Pos64(heap', n) = Vec64Add(Pos64(heap, n), Arg64(ret'.dpos))
                   /\ (~ret'.pos.some /\ ~ret'.dpos.some)
                        => Pos64(heap', n) = Pos64(heap, n)
                   /\ ret'.ori.some => heap'[n].ori = ret'.ori.v
                   /\ (~ret'.ori.some /\ ret'.dori.some)
                        => heap'[n].ori = MatMul(ret'.dori.v, heap[n].ori)
                   /\ (~ret'.ori.some /\ ~ret'.dori.some) => heap'[n].ori = heap[n].ori
                   /\ heap' = [heap EXCEPT ![n].pos = heap'[n].pos,
                                           ![n].pos64 = heap'[n].pos64,
                                           ![n].real = heap'[n].real,
                                           ![n].ori = heap'[n].ori] ]_vars

\* C13: add_to_image on an Entity that is not visible or has opacity 0
\* leaves the image as it is, whatever its components are; a visible Point
\* of opacity 1 is painted on the image itself; what a visible Entity with
\* an opacity between 0 and 1 adds to the image is blended with its
\* effective opacity; the marks the image had are kept in every case.
C13_RenderGating ==
    ret.op = "add_to_image"
        => LET n == ret.self
               img == ret.img
               out == ret.result.img
               added == SubSeq(out, Len(img) + 1, Len(out))
               w == OpacityProduct(heap, Chain(heap, n))
           IN  /\ ret.result.raised = "None"
               /\ IsPrefix(img, out)
               /\ (~heap[n].visible \/ heap[n].opacity = 0) => out = img
               /\ (heap[n].visible /\ heap[n].opacity = OpacityOne /\ heap[n].kind = "Point")
                    => added = <<Mark(Gpos(heap, n).val)>>
               /\ (heap[n].visible /\ heap[n].opacity > 0 /\ heap[n].opacity < OpacityOne)
                    => /\ \A i \in 1..Len(added) :
                             /\ added[i].weights # <<>>
                             /\ added[i].weights[Len(added[i].weights)] = w
                       /\ heap[n].kind = "Point"
                            => added = <<[at |-> Gpos(heap, n).val, weights |-> <<w>>]>>

\* C13 happens: an Entity that is not visible, with a visible opaque Point
\* as component, was added to a painted image, which stayed as it was.
C13_Witness ==
    /\ ret.op = "add_to_image"
    /\ ~heap[ret.self].visible
    /\ \E c \in Nodes :
          /\ heap[c].parent = ret.self /\ heap[c].kind = "Point"
          /\ heap[c].visible /\ heap[c].opacity = OpacityOne
    /\ ret.img # Background
    /\ ret.result = [raised |-> "None", img |-> ret.img]

\* C14: capture_frame changes no Entity, no dict and no field of the Scene,
\* and returns the background with every Entity of entities drawn on it in
\* the order of registration (the registered Points are visible and
\* opaque, so each is a mark at its position); two captures in a row return
\* equal images.
C14_CapturePure ==
    [][ ret'.op = "capture_frame"
            => /\ heap' = heap /\ dicts' = dicts /\ scenes' = scenes
               /\ ret'.raised = "None"
               /\ ret'.result = [x \in 1..Len(Entities(ret'.self)) |->
                                    Mark(heap[Entities(ret'.self)[x].v].pos)]
               /\ (ret.op = "capture_frame" /\ ret.self = ret'.self)
                    => ret'.result = ret.result ]_vars

\* C14 happens: a capture shows two registered Entities at different
\* positions.
C14_Witness ==
    /\ ret.op = "capture_frame"
    /\ Len(ret.result) = 2
    /\ ret.result[1].at # ret.result[2].at
    /\ ret.result[1].at = heap[Entities(ret.self)[1].v].pos

(***************************************************************************)
(* Properties of the builders.                                             *)
(***************************************************************************)
Builders == {"slide", "slide_to", "sweep_attr", "sweep_cmd", "set_cmd", "set_attr"}

\* what was appended to the list of frame f between the scripts old and new
Added(old, new, f) ==
    IF f \in DOMAIN old THEN SubSeq(new[f], Len(old[f]) + 1, Len(new[f])) ELSE new[f]

\* new is old with exactly the instruction i appended, at frame f
OneAppended(old, new, f, i) ==
    /\ DOMAIN new = DOMAIN old \cup {f}
    /\ \A g \in DOMAIN old : g # f => new[g] = old[g]
    /\ Added(old, new, f) = <<i>>

\* the frame t_start stands for in a Scene of script `script`
Resolved(script, fps, t_start) ==
    IF t_start = Sentinel THEN MaxKey(script) ELSE IntTimes(t_start, fps)

\* instruction i applies the end value of the builder call r
AppliesEnd(r, i) ==
    CASE r.op = "slide" ->
            /\ i.op = "move" /\ i.alias = r.alias
            /\ Unstored(i.dpos, i.dpos64) = Doubles(r.slide_disp)
      [] r.op = "slide_to" -> i = MoveTo(r.alias, r.slide_pos)
      [] r.op \in {"sweep_attr", "set_attr"} ->
            /\ i.op = "set_attribute" /\ i.alias = r.alias
            /\ i.attribute = r.attribute /\ 10 * i.value = r.end
      [] r.op \in {"sweep_cmd", "set_cmd"} -> i = r.cmd

\* C15: a builder called with a duration of less than one frame appends
\* exactly one instruction, at the frame its t_start stands for, and that
\* instruction applies the end value of the call.
C15_DurationSentinel ==
    [][ (ret'.op \in Builders /\ IntTimes(ret'.duration, scenes[ret'.self].fps) <= 0)
            => \E f \in DOMAIN scenes'[ret'.self].script :
                  /\ f = Resolved(scenes[ret'.self].script, scenes[ret'.self].fps, ret'.t_start)
                  /\ \E i \in {scenes'[ret'.self].script[f][Len(scenes'[ret'.self].script[f])]} :
                        /\ OneAppended(scenes[ret'.self].script, scenes'[ret'.self].script, f, i)
                        /\ AppliesEnd(ret', i) ]_vars

\* the frames at which something was appended between the scripts old and new
AddedAt(old, new) == {f \in DOMAIN new : Added(old, new, f) # <<>>}

\* C16: a builder called with t_start = -1 appends from the highest frame M
\* the script has when it is called: every instruction it appends is at a
\* frame >= M and the first of them at M or M + 1; and no step, of a
\* builder or of anything else, moves or removes an instruction of a
\* script: every list of the script only grows at its end.
C16_StartSentinel ==
    [][ \A s \in 1..Len(scenes) :
           /\ \A f \in DOMAIN scenes[s].script :
                 /\ f \in DOMAIN scenes'[s].script
                 /\ IsPrefix(scenes[s].script[f], scenes'[s].script[f])
           /\ (ret'.op \in Builders /\ ret'.self = s /\ ret'.t_start = Sentinel)
                 => /\ \A f \in AddedAt(scenes[s].script, scenes'[s].script) :
                          f >= MaxKey(scenes[s].script)
                    /\ \E f \in AddedAt(scenes[s].script, scenes'[s].script) :
                          f <= MaxKey(scenes[s].script) + 1 ]_vars

\* C16 happens: after a slide over three frames, a set_cmd with t_start = -1
\* has appended its instruction behind the last delta of the slide, at
\* frame 2.
C16_Witness ==
    /\ ret.op = "set_cmd" /\ ret.t_start = Sentinel
    /\ MaxKey(scenes[ret.self].script) = 2
    /\ Len(scenes[ret.self].script[2]) = 2
    /\ scenes[ret.self].script[2][1].op = "move"
    /\ scenes[ret.self].script[2][2] = ret.cmd

\* C17: set_attr appends its one set_attribute instruction at the frame its
\* t_start stands for: int(t_start * fps), or the highest frame of the
\* script for t_start = -1.
C17_SetAttrAtTime ==
    [][ ret'.op = "set_attr"
            => \E f \in DOMAIN scenes'[ret'.self].script :
                  /\ f = Resolved(scenes[ret'.self].script, scenes[ret'.self].fps, ret'.t_start)
                  /\ \E i \in {scenes'[ret'.self].script[f][Len(scenes'[ret'.self].script[f])]} :
                        /\ i.op = "set_attribute"
                        /\ OneAppended(scenes[ret'.self].script, scenes'[ret'.self].script, f, i) ]_vars

\* the script holding only what was appended between the scripts old and new
AddedScript(old, new) == [f \in AddedAt(old, new) |-> Added(old, new, f)]

\* The outcome of executing, in the order of set_frame_no, the instructions
\* of `script` alone on the Entities of Scene s as they are in heap h.
PlayOnly(h, s, script) ==
    ReplayRun(h, Entities(s), [scenes[s] EXCEPT !.script = script], 0, 1,
              MaxKey(script) + 1, NoReport, <<>>)

\* the Entity the alias stands for in Scene s
EntityOf(s, alias) == Get(Entities(s), StrKey(alias))

\* what C18 says of the slide call r that turned the script old into new
SlideSums(r, old, new, n, start, played) ==
    /\ \A f \in AddedAt(old, new) :
          /\ Len(Added(old, new, f)) = 1
          /\ Added(old, new, f)[1].op = "move"
          /\ Added(old, new, f)[1].alias = r.alias
    /\ AddedAt(old, new) = IF n > 1 THEN (start + 1)..(start + n - 1) ELSE {start}
    /\ played.raised = "None"
    /\ Pos64(played.heap, EntityOf(r.self, r.alias))
          = Vec64Add(Pos64(heap, EntityOf(r.self, r.alias)), Doubles(r.slide_disp))

\* C18: the instructions one slide call appends are relative moves of its
\* entity, at the frames start+1 .. start+n-1 when n = max(1, int(duration
\* * fps)) is more than 1 and at the frame start when it is 1; executing
\* them, and nothing else, takes the entity from its position p to
\* p + slide_disp.
C18_SlideDeltas ==
    [][ ret'.op = "slide"
            => SlideSums(ret', scenes[ret'.self].script, scenes'[ret'.self].script,
                         NFrames(scenes[ret'.self], ret'.duration),
                         Resolved(scenes[ret'.self].script, scenes[ret'.self].fps,
                                  ret'.t_start),
                         PlayOnly(heap, ret'.self,
                                  AddedScript(scenes[ret'.self].script,
                                              scenes'[ret'.self].script))) ]_vars

\* what C19 says of the slide_to call r that turned the script old into new
SlideToCloses(r, old, new, added, all) ==
    /\ added.raised = "None"
          => Pos64(added.heap, EntityOf(r.self, r.alias)) = Doubles(r.slide_pos)
    /\ (all.raised = "None" /\ MaxKey(new) \in AddedAt(old, new))
          => Pos64(all.heap, EntityOf(r.self, r.alias)) = Doubles(r.slide_pos)

\* C19: executing the instructions one slide_to call appends leaves the
\* entity at slide_pos, from whatever position it starts; and so does
\* executing the whole script when the last of its instructions is the last
\* one of the slide_to, whatever the other instructions move.
C19_SlideToTarget ==
    [][ ret'.op = "slide_to"
            => SlideToCloses(ret', scenes[ret'.self].script, scenes'[ret'.self].script,
                             PlayOnly(heap, ret'.self,
                                      AddedScript(scenes[ret'.self].script,
                                                  scenes'[ret'.self].script)),
                             PlayOnly(heap, ret'.self, scenes'[ret'.self].script)) ]_vars

\* C20: span with more than one element returns n_elems elements, the
\* first of them start and the last of them end, exactly.
C20_EndpointsExact ==
    (ret.op = "span" /\ ret.n_elems > 1)
        => /\ Len(ret.result) = ret.n_elems
           /\ ret.result[1] = <<ret.start>>
           /\ ret.result[ret.n_elems] = <<ret.end>>

\* C21: span with at most one element returns the one-element sequence
\* holding end.
C21_SnapToEnd ==
    (ret.op = "span" /\ ret.n_elems <= 1) => ret.result = << <<ret.end>> >>

(***************************************************************************)
(* Properties of dist_to_poly.  The crossings of a ray are found here by   *)
(* walking along it in steps of a quarter of a half unit and asking of     *)
(* each place whether it lies on a segment of the polygon.  A double that  *)
(* is a short binary fraction is compared as the pair <<num, den>> of its  *)
(* half units.                                                             *)
(***************************************************************************)
\* the zero bits at the low end of a whole number a > 0
RECURSIVE LowZeros(_)
LowZeros(a) ==
    IF a[1] = 0 THEN 15 + LowZeros(Tail(a))
    ELSE IF a[1] % 2 = 0 THEN 1 + LowZeros(<<a[1] \div 2>>)
    ELSE 0

\* the double x as the fraction of its half units, in lowest terms
Halves(x) ==
    IF x.m = <<>> THEN <<0, 1>>
    ELSE LET z == LowZeros(x.m)
             n == BigInt(ShiftDown(x.m, z)) * (IF x.neg THEN -1 ELSE 1)
         IN  IF x.e + z + 1 >= 0 THEN <<n * Pow2(x.e + z + 1), 1>>
             ELSE <<n, Pow2(-(x.e + z + 1))>>

\* on which side of the line of the ray v lies: 0 on the line
Side(dir, point, v) == (-dir[2]) * (v[1] - point[1]) + dir[1] * (v[2] - point[2])

RaySteps == -40..40

\* the place k steps along the ray, times 4 * len
Place(point, dir, len, k) ==
    <<4 * len * point[1] + k * dir[1],
      4 * len * point[2] + k * dir[2]>>

\* q lies on the segment from s to e
OnSegment(q, s, e) ==
    /\ (e[1] - s[1]) * (q[2] - s[2]) = (e[2] - s[2]) * (q[1] - s[1])
    /\ (q[1] - s[1]) * (e[1] - s[1]) + (q[2] - s[2]) * (e[2] - s[2]) >= 0
    /\ (q[1] - e[1]) * (s[1] - e[1]) + (q[2] - e[2]) * (s[2] - e[2]) >= 0

Scaled(v, len) == <<4 * len * v[1], 4 * len * v[2]>>

\* the steps at which the ray of the call r meets the polygon
Crossings(r) ==
    {k \in RaySteps :
        \E i \in 1..Len(r.poly) :
            OnSegment(Place(r.point, r.dir, r.len, k), Scaled(r.poly[i], r.len),
                      Scaled(r.poly[(i % Len(r.poly)) + 1], r.len))}

\* the point of the call r is strictly inside its polygon (counter-clockwise)
StrictlyInside(r) ==
    \A i \in 1..Len(r.poly) :
        (r.poly[(i % Len(r.poly)) + 1][1] - r.poly[i][1]) * (r.point[2] - r.poly[i][2])
          - (r.poly[(i % Len(r.poly)) + 1][2] - r.poly[i][2]) * (r.point[1] - r.poly[i][1]) > 0

\* the least of a set of steps, as a distance
LeastStep(S) == Reduce(<<CHOOSE k \in S : \A j \in S : k <= j, 4>>)

\* C22 as it is stated: dist_to_poly returns +infinity whenever the ray
\* meets the polygon at no distance >= 0.
C22_NoForwardCrossing ==
    (ret.op = "dist_to_poly" /\ \A k \in Crossings(ret) : k < 0)
        => (ret.result.inf /\ ~ret.result.negative)

\* C22, amended: when the ray meets the polygon at no distance >= 0,
\* dist_to_poly returns +infinity if the line of the ray does not meet the
\* polygon at all, and -infinity if it meets it behind the point.
C22_NoForwardCrossingSigned ==
    (ret.op = "dist_to_poly" /\ \A k \in Crossings(ret) : k < 0)
        => /\ ret.result.inf
           /\ ret.result.negative <=> Crossings(ret) # {}

\* C22 happens: the polygon lies behind the point, and the result is
\* -infinity.
C22_Witness ==
    /\ ret.op = "dist_to_poly"
    /\ Crossings(ret) # {} /\ \A k \in Crossings(ret) : k < 0
    /\ ret.result.inf /\ ret.result.negative

\* C23: on a convex polygon, with a ray whose line passes through no
\* vertex: when all crossings are ahead, the result is the least of them
\* and positive; from a point strictly inside, the result is minus the
\* distance to the crossing ahead; and the result is negative only if a
\* crossing lies behind the point.
C23_ConvexDistance ==
    (ret.op = "dist_to_poly"
       /\ \A i \in 1..Len(ret.poly) : Side(ret.dir, ret.point, ret.poly[i]) # 0)
        => /\ (Crossings(ret) # {} /\ \A k \in Crossings(ret) : k > 0)
                => /\ ~ret.result.inf
                   /\ Halves(ret.result.v) = LeastStep(Crossings(ret))
                   /\ Halves(ret.result.v)[1] > 0
           /\ StrictlyInside(ret)
                => /\ ~ret.result.inf
                   /\ Halves(ret.result.v)[1] < 0
                   /\ <<-Halves(ret.result.v)[1], Halves(ret.result.v)[2]>>
                         = LeastStep({k \in Crossings(ret) : k > 0})
           /\ ret.result.negative => \E k \in Crossings(ret) : k < 0

\* C23 happens: from (2, 0), heading (-1, 0), the unit square centered at
\* the origin is at 1.5, three half units.
C23_Witness ==
    /\ ret.op = "dist_to_poly"
    /\ ret.poly = <<<<1, 1>>, <<-1, 1>>, <<-1, -1>>, <<1, -1>>>>
    /\ ret.point = <<4, 0>> /\ ret.dir = <<-1, 0>>
    /\ ~ret.result.inf /\ ~ret.result.negative
    /\ Halves(ret.result.v) = <<3, 1>>

(***************************************************************************)
(* Properties of calc_flatness.                                            *)
(***************************************************************************)
\* C24: calc_flatness on the rectangle [[0,0],[10,0],[10,1],[0,1]], whose
\* minimum-y anchor is the first input point, completes without error and
\* returns 1.
C24_RectangleFlatness ==
    (/\ ret.op = "calc_flatness"
     /\ ret.points = <<<<0, 0>>, <<10, 0>>, <<10, 1>>, <<0, 1>>>>
     /\ ret.pc # "loop")
    => /\ ret.pc = "returned"
       /\ ret.flatness = F64Of(1, 0)

\* the anchor that pass k of the loop moved away from
Before(vals, first, k) == IF k = 1 THEN first ELSE vals[k - 1]

\* C25: on points with at least two distinct y values calc_flatness ends
\* after no more passes than there are points, with one anchor on the other
\* anchor's original extreme point; it never raises, every pass moves exactly
\* one anchor and leaves the slopes antiparallel, and the value returned is
\* the least of the separations recorded, of which there is at least one.
C25_RollsToTheOtherSide ==
    (/\ ret.op = "calc_flatness"
     /\ \E i, j \in 1..Len(ret.points) : ret.points[i][2] # ret.points[j][2])
    => /\ ret.pc # "raised"
       /\ Len(ret.flatness_step_vals) <= Len(ret.points)
       /\ ret.p1_slope = Opposite(ret.p0_slope)
       /\ \A k \in 1..Len(ret.flatness_step_vals) :
              (ret.p0_vals[k] # Before(ret.p0_vals, ret.points[ret.n0], k))
              # (ret.p1_vals[k] # Before(ret.p1_vals, ret.points[ret.n1], k))
       /\ ret.pc = "returned" =>
              /\ ret.p0 = ret.points[ret.n1] \/ ret.p1 = ret.points[ret.n0]
              /\ Len(ret.flatness_step_vals) >= 1
              /\ ret.flatness = MinVal(ret.flatness_step_vals)

(***************************************************************************)
(* Properties of the jagged sampling.                                      *)
(***************************************************************************)
\* the start of the first line of a contour
RECURSIVE ContourStart(_, _)
ContourStart(h, n) ==
    IF h[n].kind = "LineContour2D" THEN h[n].start
    ELSE ContourStart(h, h[n].components[1])

\* C26: jagged_points gives the same outcome from every state the generator
\* may have been left in, so that two evaluations of a contour with the same
\* attributes and seed agree whatever was drawn in between; the first and
\* the last point have offset 0 and the first point is the contour start.
C26_SameSeedSamePoints ==
    ret.op = "jagged_points" =>
        /\ \A state \in GeneratorStates :
               /\ JaggedPoints(heap, ret.self, state).raised = ret.result.raised
               /\ JaggedPoints(heap, ret.self, state).points = ret.result.points
        /\ ret.result.raised = "None" =>
               /\ ret.result.offsets[1] = 0
               /\ ret.result.offsets[Len(ret.result.offsets)] = 0
               /\ \A x \in 1..2 :
                      ret.result.points[1][x][1]
                      = ContourStart(heap, ret.self)[x] * ret.result.points[1][x][2]

\* an outline of two lines was sampled, with a point moved off the contour,
\* from a generator that another seed and two draws had left
C26_Witness ==
    /\ ret.op = "jagged_points"
    /\ heap[ret.self].kind = "Contour2D"
    /\ Len(heap[ret.self].components) = 2
    /\ ret.before.seed # heap[ret.self].seed
    /\ ret.before.drawn = 2
    /\ ret.result.raised = "None"
    /\ \E i \in 1..Len(ret.result.offsets) : ret.result.offsets[i] # 0

(***************************************************************************)
(* Properties of seeking and of the frames of a Scene.                     *)
(***************************************************************************)
\* Every Entity of the Scene sc is as the replay of frames [0, current_frame)
\* from the snapshot leaves its copy.
Consistent(h, ds, sc) ==
    \A x \in 1..Len(ds[sc.entities]) :
        /\ HasKey(sc.entities_init, ds[sc.entities][x].k)
        /\ h[ds[sc.entities][x].v] =
               ReplayRun(h, sc.entities_init, sc, 0, 1, sc.current_frame, NoReport, <<>>)
                   .heap[Get(sc.entities_init, ds[sc.entities][x].k)]

\* C27: a seek made in a state where the Entities are as the replay of
\* frames [0, current_frame) leaves them as the replay of frames
\* [0, current_frame) again, also when an instruction raised and the seek
\* was aborted.
C27_ReplayConsistency ==
    [][ (ret'.op = "set_frame_no" /\ Consistent(heap, dicts, scenes[ret'.self]))
            => Consistent(heap', dicts', scenes'[ret'.self]) ]_vars

\* What a capture of scenes[s] shows when its Entities are as the replay of
\* frames [0, k) from the snapshot leaves their copies.
CaptureOfReplay(s, k) ==
    [x \in 1..Len(Entities(s)) |->
        Mark(Replayed(s, k)[Get(scenes[s].entities_init, Entities(s)[x].k)].pos)]

\* C28: the buffers that get_frames returns when called from frame 0 on are,
\* for every frame k, the capture of the Entities after exactly the
\* instructions of the frames below k (for k = 0 the registration state);
\* with the default end the call executes no instruction of the highest
\* frame of the script.
C28_CaptureBeforeFrame ==
    (ret.op = "get_frames" /\ ret.raised = "None" /\ ret.start_frame = 0)
        => /\ \A i \in 1..Len(ret.result.v) :
                  ret.result.v[i] = CaptureOfReplay(ret.self, i - 1)
           /\ ~ret.end_frame.some
                  => \A j \in 1..Len(ret.log) :
                         ret.log[j][1] < MaxKey(scenes[ret.self].script)

(***************************************************************************)
(* Properties of the fades.                                                *)
(***************************************************************************)
\* the <<frame, index>> at which set_attribute instructions of `attribute`
\* were appended between the scripts old and new
AddedOf(old, new, attribute) ==
    {w \in (DOMAIN new) \X (1..MaxFadeScript) :
        /\ w[2] <= Len(new[w[1]])
        /\ w[2] > (IF w[1] \in DOMAIN old THEN Len(old[w[1]]) ELSE 0)
        /\ new[w[1]][w[2]].op = "set_attribute"
        /\ new[w[1]][w[2]].attribute = attribute}

\* <<f, j>> is executed before <<g, k>>, or is the same
NotAfter(a, b) == a[1] < b[1] \/ (a[1] = b[1] /\ a[2] <= b[2])

\* what C29 says of the fade call r that turned the script old into new
FadeInOrder(r, old, new, played) ==
    /\ \E v \in AddedOf(old, new, "visible") :
          /\ new[v[1]][v[2]].value # 0
          /\ \A o \in AddedOf(old, new, "opacity") : NotAfter(v, o)
    /\ played.raised = "None"
    /\ played.heap[EntityOf(r.self, r.alias)].visible
    /\ played.heap[EntityOf(r.self, r.alias)].opacity = OpacityOne

FadeOutOrder(r, old, new, played) ==
    /\ \E v \in AddedOf(old, new, "visible") :
          /\ new[v[1]][v[2]].value = 0
          /\ \A o \in AddedOf(old, new, "opacity") : NotAfter(o, v)
          /\ \E o \in AddedOf(old, new, "opacity") : v[1] = o[1]
    /\ played.raised = "None"
    /\ ~played.heap[EntityOf(r.self, r.alias)].visible
    /\ played.heap[EntityOf(r.self, r.alias)].opacity = 0

\* C29: fade_in appends its visible=True instruction no later than its
\* first opacity instruction; fade_out appends its
\* visible=False instruction at the frame of its last opacity instruction
\* and after it, whatever t_start is; executing what a fade appended leaves
\* the entity visible with opacity 1, or invisible with opacity 0.
C29_FadeVisibility ==
    [][ /\ ret'.op = "fade_in"
            => FadeInOrder(ret', scenes[ret'.self].script, scenes'[ret'.self].script,
                           PlayOnly(heap, ret'.self,
                                    AddedScript(scenes[ret'.self].script,
                                                scenes'[ret'.self].script)))
        /\ ret'.op = "fade_out"
            => FadeOutOrder(ret', scenes[ret'.self].script, scenes'[ret'.self].script,
                            PlayOnly(heap, ret'.self,
                                     AddedScript(scenes[ret'.self].script,
                                                 scenes'[ret'.self].script))) ]_vars

(***************************************************************************)
(* Properties of nested compositing.                                       *)
(***************************************************************************)
\* the product of the weights a mark was blended with
RECURSIVE NetWeight(_)
NetWeight(weights) ==
    IF weights = <<>> THEN <<1, 1>>
    ELSE <<Head(weights)[1] * NetWeight(Tail(weights))[1],
           Head(weights)[2] * NetWeight(Tail(weights))[2]>>

\* C30: when add_to_image is called on a visible parentless Entity with an
\* opacity between 0 and 1 under which the one Point there is, itself of an
\* opacity between 0 and 1, is drawn (every Entity from the Point up is
\* visible and not transparent), the Point's mark is added to the image with
\* a net weight equal to the Point's effective opacity: the product of the
\* local opacities from the Point up, each taken once.
C30_OpacityOnce ==
    (ret.op = "add_to_image" /\ ret.result.raised = "None")
        => \A c \in Nodes :
               (/\ heap[c].kind = "Point"
                /\ \A d \in Nodes : heap[d].kind = "Point" => d = c
                /\ c # ret.self /\ ret.self \in Chain(heap, c)
                /\ heap[ret.self].parent = None
                /\ heap[c].opacity > 0 /\ heap[c].opacity < OpacityOne
                /\ heap[ret.self].opacity > 0 /\ heap[ret.self].opacity < OpacityOne
                /\ \A d \in Chain(heap, c) : heap[d].visible /\ heap[d].opacity > 0)
               => /\ Len(ret.result.img) = Len(ret.img) + 1
                  /\ NetWeight(ret.result.img[Len(ret.result.img)].weights)[1]
                         * OpacityProduct(heap, Chain(heap, c))[2]
                     = OpacityProduct(heap, Chain(heap, c))[1]
                         * NetWeight(ret.result.img[Len(ret.result.img)].weights)[2]

====
